---- MODULE Spec2Model ----
(***************************************************************************)
(* Rogue Drones client workflow API: the FastAPI route handlers over the   *)
(* MongoDB collections (backend/app/api/endpoints/*.py, services/user.py). *)
(* A collection is a function from the ids of its stored documents to      *)
(* records.  Each route handler is one action: it runs its database calls  *)
(* in program order, records the request it served in req and the HTTP     *)
(* response it produced in resp.                                           *)
(***************************************************************************)
EXTENDS Integers, Sequences, FiniteSets, TLC

VARIABLES users, organisations, clients, projects, documents, meetings,
          issued, now, req, resp, inflight,
          localStorage, location, page

vars == <<users, organisations, clients, projects, documents, meetings,
          issued, now, req, resp, inflight, localStorage, location, page>>

\* the state of the backend and the state of a browser showing the frontend
backend == <<users, organisations, clients, projects, documents, meetings,
             issued, now, inflight>>
browser == <<localStorage, location, page>>

(* ------------------------------ bounds -------------------------------- *)
MaxOrgs == 2
MaxClients == 2
MaxTime == 1
MaxProjects == 2
MaxDocs == 1
MaxMeetings == 1
MaxVersions == 3
MaxUsers == 2
MaxInflight == 2
MaxKeyPoints == 4
MaxFetches == 2

(* ----------------------------- base values ---------------------------- *)
\* Python None in a string-valued field, and in an ObjectId-valued field.
None == "None"
NoId == 0
\* No record in a response body (an error, or a {"message": ...} body).
NoData == <<>>

\* the requests being handled: each slot holds a call or is idle
Slots == 1 .. MaxInflight
Idle == [op |-> "idle"]
NoCalls == [r \in Slots |-> Idle]

\* no browser is open: nothing in localStorage, no page shown
NoBrowser ==
    /\ localStorage = [token |-> None]
    /\ location = ""
    /\ page = [name |-> "none"]

\* HTTP status codes the handlers return.
HTTP_200_OK == 200
HTTP_400_BAD_REQUEST == 400
HTTP_401_UNAUTHORIZED == 401
HTTP_403_FORBIDDEN == 403
HTTP_404_NOT_FOUND == 404
HTTP_500_INTERNAL_SERVER_ERROR == 500

(* -------------------------- collection calls -------------------------- *)
\* collection.find_one({"_id": id}) is not None
Stored(coll, id) == id \in DOMAIN coll

\* ids of the documents matching {field: value}
Matching(coll, field, value) == {i \in DOMAIN coll : coll[i][field] = value}

\* a count whose filter compares the ObjectId-valued field with the id's
\* string form, which matches no stored document
CountDocuments_StrFilter(coll, field, value) == 0

\* collection.count_documents({field: value})
CountDocuments(coll, field, value) == Cardinality(Matching(coll, field, value))

\* collection.insert_one(rec) with the generated _id = id
InsertOne(coll, id, rec) ==
    [i \in DOMAIN coll \cup {id} |-> IF i = id THEN rec ELSE coll[i]]

\* the record after {"$set": update}
SetFields(rec, update) ==
    [f \in DOMAIN rec \cup DOMAIN update |->
        IF f \in DOMAIN update THEN update[f] ELSE rec[f]]

\* collection.update_one({"_id": id}, {"$set": update})
UpdateOne(coll, id, update) ==
    [i \in DOMAIN coll |-> IF i = id THEN SetFields(coll[i], update) ELSE coll[i]]

\* a delete that drops every record of the collection
DeleteOne_Every(coll, id) == [i \in {} |-> coll[i]]

\* collection.delete_one({"_id": id})
DeleteOne(coll, id) == [i \in DOMAIN coll \ {id} |-> coll[i]]

\* the response of a handler: raise HTTPException(status, detail), or a 200 body
HTTPException(status, detail) ==
    [status |-> status, detail |-> detail, id |-> NoId, data |-> NoData]

Returned(id, data) ==
    [status |-> HTTP_200_OK, detail |-> "", id |-> id, data |-> data]

\* f"{n}" for the counts the handlers format into a detail string
DecimalStr(n) ==
    IF n < 10 THEN <<"0", "1", "2", "3", "4", "5", "6", "7", "8", "9">>[n + 1]
    ELSE "many"

Request(op, id, body) == [op |-> op, id |-> id, body |-> body]

\* datetime.utcnow() read by a later request is never earlier
Tick ==
    /\ now < MaxTime
    /\ now' = now + 1
    /\ UNCHANGED <<users, organisations, clients, projects, documents,
                   meetings, issued, req, resp, inflight, browser>>

(* --------------------------- organisations ---------------------------- *)
CreateOrganisation(body) ==
    /\ req' = Request("create_organisation", NoId, body)
    /\ IF Matching(organisations, "name", body.name) # {}
       THEN /\ resp' = HTTPException(HTTP_400_BAD_REQUEST,
                          "An organisation with this name already exists.")
            /\ UNCHANGED <<organisations, issued>>
       ELSE LET id == issued.organisations + 1
                org_data == SetFields(body, [created_at |-> now, updated_at |-> now])
            IN /\ organisations' = InsertOne(organisations, id, org_data)
               /\ issued' = [issued EXCEPT !.organisations = id]
               /\ resp' = Returned(id, org_data)
    /\ UNCHANGED <<users, clients, projects, documents, meetings, now,
                   inflight, browser>>

DeleteOrganisation(organisation_id) ==
    /\ req' = Request("delete_organisation", organisation_id, NoData)
    /\ IF ~Stored(organisations, organisation_id)
       THEN /\ resp' = HTTPException(HTTP_404_NOT_FOUND, "Organisation not found")
            /\ UNCHANGED organisations
       ELSE LET clients_count ==
                    CountDocuments(clients, "organisation_id", organisation_id)
            IN IF clients_count > 0
               THEN /\ resp' = HTTPException(HTTP_400_BAD_REQUEST,
                                  "Cannot delete organisation: "
                                  \o DecimalStr(clients_count)
                                  \o " clients are associated with it")
                    /\ UNCHANGED organisations
               ELSE /\ organisations' = DeleteOne(organisations, organisation_id)
                    /\ resp' = Returned(NoId, NoData)
    /\ UNCHANGED <<users, clients, projects, documents, meetings, issued, now,
                   inflight, browser>>

(* ------------------------------ clients ------------------------------- *)
\* create_client without its existing-email lookup
CreateClient_NoEmailCheck(body) ==
    /\ req' = Request("create_client", NoId, body)
    /\ LET id == issued.clients + 1
           client_data == SetFields(body, [created_at |-> now, updated_at |-> now])
       IN /\ clients' = InsertOne(clients, id, client_data)
          /\ issued' = [issued EXCEPT !.clients = id]
          /\ resp' = Returned(id, client_data)
    /\ UNCHANGED <<users, organisations, projects, documents, meetings, now,
                   inflight, browser>>

CreateClient(body) ==
    /\ req' = Request("create_client", NoId, body)
    /\ IF Matching(clients, "email", body.email) # {}
       THEN /\ resp' = HTTPException(HTTP_400_BAD_REQUEST,
                          "A client with this email already exists.")
            /\ UNCHANGED <<clients, issued>>
       ELSE LET id == issued.clients + 1
                client_data == SetFields(body, [created_at |-> now, updated_at |-> now])
            IN /\ clients' = InsertOne(clients, id, client_data)
               /\ issued' = [issued EXCEPT !.clients = id]
               /\ resp' = Returned(id, client_data)
    /\ UNCHANGED <<users, organisations, projects, documents, meetings, now,
                   inflight, browser>>

ReadClient(client_id) ==
    /\ req' = Request("read_client", client_id, NoData)
    /\ resp' = IF ~Stored(clients, client_id)
               THEN HTTPException(HTTP_404_NOT_FOUND, "Client not found")
               ELSE Returned(client_id, clients[client_id])
    /\ UNCHANGED <<users, organisations, clients, projects, documents,
                   meetings, issued, now, inflight, browser>>

\* the fields of ClientUpdate, each Optional with default None
ClientFields ==
    {"name", "email", "phone", "organisation_id", "notes", "initial_query"}

\* client_in.dict(): every field of ClientUpdate, the unset ones as None
ClientUpdateDict(body) ==
    [f \in ClientFields |->
        IF f \in DOMAIN body THEN body[f]
        ELSE IF f = "organisation_id" THEN NoId ELSE None]

\* update_client building update_data without exclude_unset=True
UpdateClient_NoExcludeUnset(client_id, body) ==
    /\ req' = Request("update_client", client_id, body)
    /\ IF ~Stored(clients, client_id)
       THEN /\ resp' = HTTPException(HTTP_404_NOT_FOUND, "Client not found")
            /\ UNCHANGED clients
       ELSE LET update_data ==
                    SetFields(ClientUpdateDict(body), [updated_at |-> now])
            IN /\ clients' = UpdateOne(clients, client_id, update_data)
               /\ resp' = Returned(client_id, clients'[client_id])
    /\ UNCHANGED <<users, organisations, projects, documents, meetings,
                   issued, now, inflight, browser>>

\* client_in.dict(exclude_unset=True): body holds exactly the fields the
\* request supplied
UpdateClient(client_id, body) ==
    /\ req' = Request("update_client", client_id, body)
    /\ IF ~Stored(clients, client_id)
       THEN /\ resp' = HTTPException(HTTP_404_NOT_FOUND, "Client not found")
            /\ UNCHANGED clients
       ELSE LET update_data == SetFields(body, [updated_at |-> now])
            IN /\ clients' = UpdateOne(clients, client_id, update_data)
               /\ resp' = Returned(client_id, clients'[client_id])
    /\ UNCHANGED <<users, organisations, projects, documents, meetings,
                   issued, now, inflight, browser>>

DeleteClient(client_id) ==
    /\ req' = Request("delete_client", client_id, NoData)
    /\ IF ~Stored(clients, client_id)
       THEN /\ resp' = HTTPException(HTTP_404_NOT_FOUND, "Client not found")
            /\ UNCHANGED clients
       ELSE /\ clients' = DeleteOne(clients, client_id)
            /\ resp' = Returned(NoId, NoData)
    /\ UNCHANGED <<users, organisations, projects, documents, meetings,
                   issued, now, inflight, browser>>

(* ------------------------------ projects ------------------------------ *)
\* the request served for current_user (Depends(get_current_active_user))
RequestBy(op, id, body, current_user) ==
    [op |-> op, id |-> id, body |-> body, user |-> current_user]

\* f restricted to the keys in S
Restrict(f, S) == [k \in S |-> f[k]]

CreateProject(body) ==
    /\ req' = Request("create_project", NoId, body)
    /\ IF ~Stored(clients, body.client_id)
       THEN /\ resp' = HTTPException(HTTP_404_NOT_FOUND, "Client not found")
            /\ UNCHANGED <<projects, issued>>
       ELSE IF body.organisation_id # NoId
               /\ ~Stored(organisations, body.organisation_id)
       THEN /\ resp' = HTTPException(HTTP_404_NOT_FOUND, "Organisation not found")
            /\ UNCHANGED <<projects, issued>>
       ELSE LET id == issued.projects + 1
                project_data ==
                    SetFields(body, [created_at |-> now, updated_at |-> now])
            IN /\ projects' = InsertOne(projects, id, project_data)
               /\ issued' = [issued EXCEPT !.projects = id]
               /\ resp' = Returned(id, project_data)
    /\ UNCHANGED <<users, organisations, clients, documents, meetings, now,
                   inflight, browser>>

\* delete_project without its meetings count
DeleteProject_NoMeetingsCheck(project_id) ==
    /\ req' = Request("delete_project", project_id, NoData)
    /\ IF ~Stored(projects, project_id)
       THEN /\ resp' = HTTPException(HTTP_404_NOT_FOUND, "Project not found")
            /\ UNCHANGED projects
       ELSE LET documents_count ==
                    CountDocuments(documents, "project_id", project_id)
            IN IF documents_count > 0
               THEN /\ resp' = HTTPException(HTTP_400_BAD_REQUEST,
                                  "Cannot delete project: "
                                  \o DecimalStr(documents_count)
                                  \o " documents are associated with it")
                    /\ UNCHANGED projects
               ELSE /\ projects' = DeleteOne(projects, project_id)
                    /\ resp' = Returned(NoId, NoData)
    /\ UNCHANGED <<users, organisations, clients, documents, meetings,
                   issued, now, inflight, browser>>

DeleteProject(project_id) ==
    /\ req' = Request("delete_project", project_id, NoData)
    /\ IF ~Stored(projects, project_id)
       THEN /\ resp' = HTTPException(HTTP_404_NOT_FOUND, "Project not found")
            /\ UNCHANGED projects
       ELSE LET documents_count ==
                    CountDocuments(documents, "project_id", project_id)
                meetings_count ==
                    CountDocuments(meetings, "project_id", project_id)
            IN IF documents_count > 0
               THEN /\ resp' = HTTPException(HTTP_400_BAD_REQUEST,
                                  "Cannot delete project: "
                                  \o DecimalStr(documents_count)
                                  \o " documents are associated with it")
                    /\ UNCHANGED projects
               ELSE IF meetings_count > 0
               THEN /\ resp' = HTTPException(HTTP_400_BAD_REQUEST,
                                  "Cannot delete project: "
                                  \o DecimalStr(meetings_count)
                                  \o " meetings are associated with it")
                    /\ UNCHANGED projects
               ELSE /\ projects' = DeleteOne(projects, project_id)
                    /\ resp' = Returned(NoId, NoData)
    /\ UNCHANGED <<users, organisations, clients, documents, meetings,
                   issued, now, inflight, browser>>

(* ------------------------------ meetings ------------------------------ *)
CreateMeeting(body) ==
    /\ req' = Request("create_meeting", NoId, body)
    /\ IF ~Stored(clients, body.client_id)
       THEN /\ resp' = HTTPException(HTTP_404_NOT_FOUND, "Client not found")
            /\ UNCHANGED <<meetings, issued>>
       ELSE IF body.project_id # NoId /\ ~Stored(projects, body.project_id)
       THEN /\ resp' = HTTPException(HTTP_404_NOT_FOUND, "Project not found")
            /\ UNCHANGED <<meetings, issued>>
       ELSE LET id == issued.meetings + 1
                meeting_data ==
                    SetFields(body, [created_at |-> now, updated_at |-> now])
            IN /\ meetings' = InsertOne(meetings, id, meeting_data)
               /\ issued' = [issued EXCEPT !.meetings = id]
               /\ resp' = Returned(id, meeting_data)
    /\ UNCHANGED <<users, organisations, clients, projects, documents, now,
                   inflight, browser>>

DeleteMeeting(meeting_id) ==
    /\ req' = Request("delete_meeting", meeting_id, NoData)
    /\ IF ~Stored(meetings, meeting_id)
       THEN /\ resp' = HTTPException(HTTP_404_NOT_FOUND, "Meeting not found")
            /\ UNCHANGED meetings
       ELSE /\ meetings' = DeleteOne(meetings, meeting_id)
            /\ resp' = Returned(NoId, NoData)
    /\ UNCHANGED <<users, organisations, clients, projects, documents,
                   issued, now, inflight, browser>>

(* ------------------------------ documents ----------------------------- *)
\* document_data as create_document builds it: the body without content,
\* the bookkeeping fields, and the first version
NewDocument(body, current_user, at) ==
    SetFields(Restrict(body, DOMAIN body \ {"content"}),
              [created_at |-> at, updated_at |-> at,
               created_by |-> current_user,
               current_version |-> 1,
               signed |-> FALSE,
               versions |-> <<[version_number |-> 1,
                               content |-> body.content,
                               created_by |-> current_user,
                               created_at |-> at,
                               notes |-> "Initial version"]>>])

CreateDocument(current_user, body) ==
    /\ req' = RequestBy("create_document", NoId, body, current_user)
    /\ IF ~Stored(clients, body.client_id)
       THEN /\ resp' = HTTPException(HTTP_404_NOT_FOUND, "Client not found")
            /\ UNCHANGED <<documents, issued>>
       ELSE IF body.project_id # NoId /\ ~Stored(projects, body.project_id)
       THEN /\ resp' = HTTPException(HTTP_404_NOT_FOUND, "Project not found")
            /\ UNCHANGED <<documents, issued>>
       ELSE LET id == issued.documents + 1
                document_data == NewDocument(body, current_user, now)
            IN /\ documents' = InsertOne(documents, id, document_data)
               /\ issued' = [issued EXCEPT !.documents = id]
               /\ resp' = Returned(id, document_data)
    /\ UNCHANGED <<users, organisations, clients, projects, meetings, now,
                   inflight, browser>>

\* a $push that puts the new entry in front of the array
PushOne_Prepend(coll, id, field, value) ==
    [i \in DOMAIN coll |->
        IF i = id THEN [coll[i] EXCEPT ![field] = <<value>> \o @] ELSE coll[i]]

\* an update that writes the versions array as the one new entry
PushOne_Overwrite(coll, id, field, value) ==
    [i \in DOMAIN coll |->
        IF i = id THEN [coll[i] EXCEPT ![field] = <<value>>] ELSE coll[i]]

\* collection.update_one({"_id": id}, {"$push": {field: value}})
PushOne(coll, id, field, value) ==
    [i \in DOMAIN coll |->
        IF i = id THEN [coll[i] EXCEPT ![field] = Append(@, value)]
        ELSE coll[i]]

\* Python truthiness of an optional str / ObjectId-string field of a dict
\* that holds only the supplied, non-None values
Truthy(d, f) ==
    /\ f \in DOMAIN d
    /\ IF f \in {"client_id", "project_id", "organisation_id"}
       THEN d[f] # NoId ELSE d[f] # ""

\* body: the fields of DocumentUpdate the request gave a non-None value
UpdateDocument(current_user, document_id, body) ==
    /\ req' = RequestBy("update_document", document_id, body, current_user)
    /\ IF ~Stored(documents, document_id)
       THEN /\ resp' = HTTPException(HTTP_404_NOT_FOUND, "Document not found")
            /\ UNCHANGED documents
       ELSE LET document == documents[document_id]
                basic == SetFields(
                    Restrict(body, DOMAIN body
                                \ {"new_version_content", "new_version_notes"}),
                    [updated_at |-> now])
            IN IF Truthy(basic, "client_id") /\ ~Stored(clients, basic.client_id)
               THEN /\ resp' = HTTPException(HTTP_404_NOT_FOUND, "Client not found")
                    /\ UNCHANGED documents
               ELSE IF Truthy(basic, "project_id")
                       /\ ~Stored(projects, basic.project_id)
               THEN /\ resp' = HTTPException(HTTP_404_NOT_FOUND, "Project not found")
                    /\ UNCHANGED documents
               ELSE LET has_new == Truthy(body, "new_version_content")
                        new_version_number == document.current_version + 1
                        new_version ==
                            [version_number |-> new_version_number,
                             content |-> body.new_version_content,
                             created_by |-> current_user,
                             created_at |-> now,
                             notes |-> IF Truthy(body, "new_version_notes")
                                       THEN body.new_version_notes
                                       ELSE "Version "
                                            \o DecimalStr(new_version_number)]
                        update_data ==
                            IF has_new
                            THEN SetFields(basic,
                                     [current_version |-> new_version_number])
                            ELSE basic
                        pushed ==
                            IF has_new
                            THEN PushOne(documents, document_id, "versions",
                                         new_version)
                            ELSE documents
                    IN /\ documents' = UpdateOne(pushed, document_id, update_data)
                       /\ resp' = Returned(document_id, documents'[document_id])
    /\ UNCHANGED <<users, organisations, clients, projects, meetings,
                   issued, now, inflight, browser>>

\* delete_document without its signed check
DeleteDocument_NoSignedCheck(document_id) ==
    /\ req' = Request("delete_document", document_id, NoData)
    /\ IF ~Stored(documents, document_id)
       THEN /\ resp' = HTTPException(HTTP_404_NOT_FOUND, "Document not found")
            /\ UNCHANGED documents
       ELSE /\ documents' = DeleteOne(documents, document_id)
            /\ resp' = Returned(NoId, NoData)
    /\ UNCHANGED <<users, organisations, clients, projects, meetings,
                   issued, now, inflight, browser>>

DeleteDocument(document_id) ==
    /\ req' = Request("delete_document", document_id, NoData)
    /\ IF ~Stored(documents, document_id)
       THEN /\ resp' = HTTPException(HTTP_404_NOT_FOUND, "Document not found")
            /\ UNCHANGED documents
       ELSE IF documents[document_id].signed
       THEN /\ resp' = HTTPException(HTTP_400_BAD_REQUEST,
                          "Cannot delete a signed document")
            /\ UNCHANGED documents
       ELSE /\ documents' = DeleteOne(documents, document_id)
            /\ resp' = Returned(NoId, NoData)
    /\ UNCHANGED <<users, organisations, clients, projects, meetings,
                   issued, now, inflight, browser>>

\* the $set of sign_document
SignData(current_user) ==
    [signed |-> TRUE, signed_at |-> now, signed_by |-> current_user,
     updated_at |-> now]

\* sign_document without its requires_signature check
SignDocument_NoRequiresCheck(current_user, document_id) ==
    /\ req' = RequestBy("sign_document", document_id, NoData, current_user)
    /\ IF ~Stored(documents, document_id)
       THEN /\ resp' = HTTPException(HTTP_404_NOT_FOUND, "Document not found")
            /\ UNCHANGED documents
       ELSE IF documents[document_id].signed
       THEN /\ resp' = HTTPException(HTTP_400_BAD_REQUEST,
                          "This document is already signed")
            /\ UNCHANGED documents
       ELSE /\ documents' = UpdateOne(documents, document_id,
                                      SignData(current_user))
            /\ resp' = Returned(document_id, documents'[document_id])
    /\ UNCHANGED <<users, organisations, clients, projects, meetings,
                   issued, now, inflight, browser>>

SignDocument(current_user, document_id) ==
    /\ req' = RequestBy("sign_document", document_id, NoData, current_user)
    /\ IF ~Stored(documents, document_id)
       THEN /\ resp' = HTTPException(HTTP_404_NOT_FOUND, "Document not found")
            /\ UNCHANGED documents
       ELSE IF ~documents[document_id].requires_signature
       THEN /\ resp' = HTTPException(HTTP_400_BAD_REQUEST,
                          "This document does not require a signature")
            /\ UNCHANGED documents
       ELSE IF documents[document_id].signed
       THEN /\ resp' = HTTPException(HTTP_400_BAD_REQUEST,
                          "This document is already signed")
            /\ UNCHANGED documents
       ELSE /\ documents' = UpdateOne(documents, document_id,
                                      SignData(current_user))
            /\ resp' = Returned(document_id, documents'[document_id])
    /\ UNCHANGED <<users, organisations, clients, projects, meetings,
                   issued, now, inflight, browser>>

(* ------------------------- the remaining routes ----------------------- *)
\* find(query): the records whose fields have the query's values
Find(coll, query) ==
    Restrict(coll, {i \in DOMAIN coll :
                       \A f \in DOMAIN query :
                          f \in DOMAIN coll[i] /\ coll[i][f] = query[f]})

\* read_clients, read_organisations, read_projects, read_documents,
\* read_meetings: query holds the filters the request gave
ReadMany(op, coll, query) ==
    /\ req' = Request(op, NoId, query)
    /\ resp' = Returned(NoId, Find(coll, query))
    /\ UNCHANGED <<users, organisations, clients, projects, documents,
                   meetings, issued, now, inflight, browser>>

\* read_organisation, read_project, read_document, read_meeting
ReadOne(op, coll, id, not_found) ==
    /\ req' = Request(op, id, NoData)
    /\ resp' = IF ~Stored(coll, id)
               THEN HTTPException(HTTP_404_NOT_FOUND, not_found)
               ELSE Returned(id, coll[id])
    /\ UNCHANGED <<users, organisations, clients, projects, documents,
                   meetings, issued, now, inflight, browser>>

ReadOrganisation(organisation_id) ==
    ReadOne("read_organisation", organisations, organisation_id,
            "Organisation not found")

ReadProject(project_id) ==
    ReadOne("read_project", projects, project_id, "Project not found")

ReadDocument(document_id) ==
    ReadOne("read_document", documents, document_id, "Document not found")

ReadMeeting(meeting_id) ==
    ReadOne("read_meeting", meetings, meeting_id, "Meeting not found")

\* body: the fields of OrganisationUpdate the request supplied
UpdateOrganisation(organisation_id, body) ==
    /\ req' = Request("update_organisation", organisation_id, body)
    /\ IF ~Stored(organisations, organisation_id)
       THEN /\ resp' = HTTPException(HTTP_404_NOT_FOUND, "Organisation not found")
            /\ UNCHANGED organisations
       ELSE LET update_data == SetFields(body, [updated_at |-> now])
            IN /\ organisations' =
                      UpdateOne(organisations, organisation_id, update_data)
               /\ resp' = Returned(organisation_id,
                                   organisations'[organisation_id])
    /\ UNCHANGED <<users, clients, projects, documents, meetings, issued, now,
                   inflight, browser>>

\* body: the fields of ProjectUpdate the request supplied
UpdateProject(project_id, body) ==
    /\ req' = Request("update_project", project_id, body)
    /\ IF ~Stored(projects, project_id)
       THEN /\ resp' = HTTPException(HTTP_404_NOT_FOUND, "Project not found")
            /\ UNCHANGED projects
       ELSE LET update_data == SetFields(body, [updated_at |-> now])
            IN IF Truthy(update_data, "client_id")
                  /\ ~Stored(clients, update_data.client_id)
               THEN /\ resp' = HTTPException(HTTP_404_NOT_FOUND, "Client not found")
                    /\ UNCHANGED projects
               ELSE IF Truthy(update_data, "organisation_id")
                       /\ ~Stored(organisations, update_data.organisation_id)
               THEN /\ resp' = HTTPException(HTTP_404_NOT_FOUND,
                                             "Organisation not found")
                    /\ UNCHANGED projects
               ELSE /\ projects' = UpdateOne(projects, project_id, update_data)
                    /\ resp' = Returned(project_id, projects'[project_id])
    /\ UNCHANGED <<users, organisations, clients, documents, meetings,
                   issued, now, inflight, browser>>

\* body: the fields of MeetingUpdate the request supplied
UpdateMeeting(meeting_id, body) ==
    /\ req' = Request("update_meeting", meeting_id, body)
    /\ IF ~Stored(meetings, meeting_id)
       THEN /\ resp' = HTTPException(HTTP_404_NOT_FOUND, "Meeting not found")
            /\ UNCHANGED meetings
       ELSE LET update_data == SetFields(body, [updated_at |-> now])
            IN IF Truthy(update_data, "client_id")
                  /\ ~Stored(clients, update_data.client_id)
               THEN /\ resp' = HTTPException(HTTP_404_NOT_FOUND, "Client not found")
                    /\ UNCHANGED meetings
               ELSE IF Truthy(update_data, "project_id")
                       /\ ~Stored(projects, update_data.project_id)
               THEN /\ resp' = HTTPException(HTTP_404_NOT_FOUND, "Project not found")
                    /\ UNCHANGED meetings
               ELSE /\ meetings' = UpdateOne(meetings, meeting_id, update_data)
                    /\ resp' = Returned(meeting_id, meetings'[meeting_id])
    /\ UNCHANGED <<users, organisations, clients, projects, documents,
                   issued, now, inflight, browser>>

\* add_transcript and add_recording: $set of one field and updated_at
SetMeetingField(op, meeting_id, field, value) ==
    /\ req' = Request(op, meeting_id, value)
    /\ IF ~Stored(meetings, meeting_id)
       THEN /\ resp' = HTTPException(HTTP_404_NOT_FOUND, "Meeting not found")
            /\ UNCHANGED meetings
       ELSE LET update_data ==
                    [f \in {field, "updated_at"} |->
                        IF f = field THEN value ELSE now]
            IN /\ meetings' = UpdateOne(meetings, meeting_id, update_data)
               /\ resp' = Returned(meeting_id, meetings'[meeting_id])
    /\ UNCHANGED <<users, organisations, clients, projects, documents,
                   issued, now, inflight, browser>>

AddTranscript(meeting_id, transcript) ==
    SetMeetingField("add_transcript", meeting_id, "transcript", transcript)

AddRecording(meeting_id, recording_url) ==
    SetMeetingField("add_recording", meeting_id, "recording_url", recording_url)

\* $push with $each on a field that may not exist yet, and $set updated_at
AddKeyPoints(meeting_id, key_points) ==
    /\ req' = Request("add_key_points", meeting_id, key_points)
    /\ IF ~Stored(meetings, meeting_id)
       THEN /\ resp' = HTTPException(HTTP_404_NOT_FOUND, "Meeting not found")
            /\ UNCHANGED meetings
       ELSE LET meeting == meetings[meeting_id]
                pushed == IF "key_points" \in DOMAIN meeting
                          THEN meeting.key_points \o key_points
                          ELSE key_points
            IN /\ meetings' = UpdateOne(meetings, meeting_id,
                                  [key_points |-> pushed, updated_at |-> now])
               /\ resp' = Returned(meeting_id, meetings'[meeting_id])
    /\ UNCHANGED <<users, organisations, clients, projects, documents,
                   issued, now, inflight, browser>>

(* ------------------- handlers, one database call a step ---------------- *)
\* A coroutine runs alone between two awaits, and every await of these
\* handlers is one database call.  A step is one such call together with
\* the code that follows it up to the next await; other requests may take
\* steps in between.  The first step of a handler takes an idle slot.

\* the handler in slot r suspends at its next await
Await(r, call) ==
    /\ inflight' = [inflight EXCEPT ![r] = call]
    /\ UNCHANGED <<req, resp>>

\* the handler in slot r returns or raises
Respond(r, request, response) ==
    /\ req' = request
    /\ resp' = response
    /\ inflight' = [inflight EXCEPT ![r] = Idle]

\* slot r holds a call of handler op suspended before the await pc
At(r, op, pc) ==
    /\ inflight[r] # Idle
    /\ inflight[r].op = op
    /\ inflight[r].pc = pc

(* delete_project *)
DeleteProject_FindProject(r, project_id) ==
    /\ inflight[r] = Idle
    /\ IF ~Stored(projects, project_id)
       THEN Respond(r, Request("delete_project", project_id, NoData),
                    HTTPException(HTTP_404_NOT_FOUND, "Project not found"))
       ELSE Await(r, [op |-> "delete_project", pc |-> "count_documents",
                      id |-> project_id])
    /\ UNCHANGED <<users, organisations, clients, projects, documents,
                   meetings, issued, now, browser>>

DeleteProject_CountDocuments(r) ==
    /\ At(r, "delete_project", "count_documents")
    /\ LET project_id == inflight[r].id
           documents_count ==
               CountDocuments(documents, "project_id", project_id)
       IN IF documents_count > 0
          THEN Respond(r, Request("delete_project", project_id, NoData),
                       HTTPException(HTTP_400_BAD_REQUEST,
                           "Cannot delete project: "
                           \o DecimalStr(documents_count)
                           \o " documents are associated with it"))
          ELSE Await(r, [inflight[r] EXCEPT !.pc = "count_meetings"])
    /\ UNCHANGED <<users, organisations, clients, projects, documents,
                   meetings, issued, now, browser>>

DeleteProject_CountMeetings(r) ==
    /\ At(r, "delete_project", "count_meetings")
    /\ LET project_id == inflight[r].id
           meetings_count ==
               CountDocuments(meetings, "project_id", project_id)
       IN IF meetings_count > 0
          THEN Respond(r, Request("delete_project", project_id, NoData),
                       HTTPException(HTTP_400_BAD_REQUEST,
                           "Cannot delete project: "
                           \o DecimalStr(meetings_count)
                           \o " meetings are associated with it"))
          ELSE Await(r, [inflight[r] EXCEPT !.pc = "delete_one"])
    /\ UNCHANGED <<users, organisations, clients, projects, documents,
                   meetings, issued, now, browser>>

DeleteProject_DeleteOne(r) ==
    /\ At(r, "delete_project", "delete_one")
    /\ projects' = DeleteOne(projects, inflight[r].id)
    /\ Respond(r, Request("delete_project", inflight[r].id, NoData),
               Returned(NoId, NoData))
    /\ UNCHANGED <<users, organisations, clients, documents, meetings,
                   issued, now, browser>>

(* create_document *)
CreateDocument_FindClient(r, current_user, body) ==
    /\ inflight[r] = Idle
    /\ IF ~Stored(clients, body.client_id)
       THEN Respond(r, RequestBy("create_document", NoId, body, current_user),
                    HTTPException(HTTP_404_NOT_FOUND, "Client not found"))
       ELSE Await(r, [op |-> "create_document",
                      pc |-> IF body.project_id # NoId
                             THEN "find_project" ELSE "insert_one",
                      user |-> current_user, body |-> body, at |-> now])
    /\ UNCHANGED <<users, organisations, clients, projects, documents,
                   meetings, issued, now, browser>>

CreateDocument_FindProject(r) ==
    /\ At(r, "create_document", "find_project")
    /\ LET call == inflight[r]
       IN IF ~Stored(projects, call.body.project_id)
          THEN Respond(r, RequestBy("create_document", NoId, call.body,
                                    call.user),
                       HTTPException(HTTP_404_NOT_FOUND, "Project not found"))
          ELSE Await(r, [call EXCEPT !.pc = "insert_one", !.at = now])
    /\ UNCHANGED <<users, organisations, clients, projects, documents,
                   meetings, issued, now, browser>>

CreateDocument_InsertOne(r) ==
    /\ At(r, "create_document", "insert_one")
    /\ LET call == inflight[r]
           id == issued.documents + 1
           document_data == NewDocument(call.body, call.user, call.at)
       IN /\ documents' = InsertOne(documents, id, document_data)
          /\ issued' = [issued EXCEPT !.documents = id]
          /\ Respond(r, RequestBy("create_document", NoId, call.body,
                                  call.user),
                     Returned(id, document_data))
    /\ UNCHANGED <<users, organisations, clients, projects, meetings, now,
                   browser>>

(* create_meeting *)
CreateMeeting_FindClient(r, body) ==
    /\ inflight[r] = Idle
    /\ IF ~Stored(clients, body.client_id)
       THEN Respond(r, Request("create_meeting", NoId, body),
                    HTTPException(HTTP_404_NOT_FOUND, "Client not found"))
       ELSE Await(r, [op |-> "create_meeting",
                      pc |-> IF body.project_id # NoId
                             THEN "find_project" ELSE "insert_one",
                      body |-> body, at |-> now])
    /\ UNCHANGED <<users, organisations, clients, projects, documents,
                   meetings, issued, now, browser>>

CreateMeeting_FindProject(r) ==
    /\ At(r, "create_meeting", "find_project")
    /\ LET call == inflight[r]
       IN IF ~Stored(projects, call.body.project_id)
          THEN Respond(r, Request("create_meeting", NoId, call.body),
                       HTTPException(HTTP_404_NOT_FOUND, "Project not found"))
          ELSE Await(r, [call EXCEPT !.pc = "insert_one", !.at = now])
    /\ UNCHANGED <<users, organisations, clients, projects, documents,
                   meetings, issued, now, browser>>

CreateMeeting_InsertOne(r) ==
    /\ At(r, "create_meeting", "insert_one")
    /\ LET call == inflight[r]
           id == issued.meetings + 1
           meeting_data ==
               SetFields(call.body,
                         [created_at |-> call.at, updated_at |-> call.at])
       IN /\ meetings' = InsertOne(meetings, id, meeting_data)
          /\ issued' = [issued EXCEPT !.meetings = id]
          /\ Respond(r, Request("create_meeting", NoId, call.body),
                     Returned(id, meeting_data))
    /\ UNCHANGED <<users, organisations, clients, projects, documents, now,
                   browser>>

(* update_document, sign_document, update_meeting *)
\* the await an update handler reaches once the await `done` has answered:
\* the lookups of the ids that update_data carries, the $push when the body
\* has new version content, the $set, and the find_one that is returned
UpdateAwait(done, update_data, has_new) ==
    IF done = "find_one" /\ Truthy(update_data, "client_id")
    THEN "find_client"
    ELSE IF done \in {"find_one", "find_client"}
            /\ Truthy(update_data, "project_id")
    THEN "find_project"
    ELSE IF done \in {"find_one", "find_client", "find_project"} /\ has_new
    THEN "push"
    ELSE IF done \in {"find_one", "find_client", "find_project", "push"}
    THEN "set"
    ELSE "find_updated"

\* the entry update_document pushes, numbered from the document it read
NewVersion(document, body, current_user, at) ==
    LET new_version_number == document.current_version + 1
    IN [version_number |-> new_version_number,
        content |-> body.new_version_content,
        created_by |-> current_user,
        created_at |-> at,
        notes |-> IF Truthy(body, "new_version_notes")
                  THEN body.new_version_notes
                  ELSE "Version " \o DecimalStr(new_version_number)]

\* the find_one an update handler returns; a missing record is None, which
\* is no instance of the route's response_model
FindUpdated(coll, id) ==
    IF Stored(coll, id) THEN Returned(id, coll[id])
    ELSE HTTPException(HTTP_500_INTERNAL_SERVER_ERROR, "Internal Server Error")

UpdateDocument_FindDocument(r, current_user, document_id, body) ==
    /\ inflight[r] = Idle
    /\ IF ~Stored(documents, document_id)
       THEN Respond(r, RequestBy("update_document", document_id, body,
                                 current_user),
                    HTTPException(HTTP_404_NOT_FOUND, "Document not found"))
       ELSE LET update_data ==
                    SetFields(
                        Restrict(body, DOMAIN body
                                 \ {"new_version_content", "new_version_notes"}),
                        [updated_at |-> now])
            IN Await(r, [op |-> "update_document",
                         pc |-> UpdateAwait("find_one", update_data,
                                    Truthy(body, "new_version_content")),
                         user |-> current_user, id |-> document_id,
                         body |-> body, document |-> documents[document_id],
                         update_data |-> update_data, at |-> now])
    /\ UNCHANGED <<users, organisations, clients, projects, documents,
                   meetings, issued, now, browser>>

UpdateDocument_FindClient(r) ==
    /\ At(r, "update_document", "find_client")
    /\ LET call == inflight[r]
       IN IF ~Stored(clients, call.update_data.client_id)
          THEN Respond(r, RequestBy("update_document", call.id, call.body,
                                    call.user),
                       HTTPException(HTTP_404_NOT_FOUND, "Client not found"))
          ELSE Await(r, [call EXCEPT
                           !.pc = UpdateAwait("find_client", call.update_data,
                                      Truthy(call.body, "new_version_content")),
                           !.at = now])
    /\ UNCHANGED <<users, organisations, clients, projects, documents,
                   meetings, issued, now, browser>>

UpdateDocument_FindProject(r) ==
    /\ At(r, "update_document", "find_project")
    /\ LET call == inflight[r]
       IN IF ~Stored(projects, call.update_data.project_id)
          THEN Respond(r, RequestBy("update_document", call.id, call.body,
                                    call.user),
                       HTTPException(HTTP_404_NOT_FOUND, "Project not found"))
          ELSE Await(r, [call EXCEPT
                           !.pc = UpdateAwait("find_project", call.update_data,
                                      Truthy(call.body, "new_version_content")),
                           !.at = now])
    /\ UNCHANGED <<users, organisations, clients, projects, documents,
                   meetings, issued, now, browser>>

UpdateDocument_Push(r) ==
    /\ At(r, "update_document", "push")
    /\ LET call == inflight[r]
       IN /\ documents' = PushOne(documents, call.id, "versions",
                              NewVersion(call.document, call.body, call.user,
                                         call.at))
          /\ Await(r, [call EXCEPT !.pc = "set"])
    /\ UNCHANGED <<users, organisations, clients, projects, meetings,
                   issued, now, browser>>

UpdateDocument_Set(r) ==
    /\ At(r, "update_document", "set")
    /\ LET call == inflight[r]
           update_data ==
               IF Truthy(call.body, "new_version_content")
               THEN SetFields(call.update_data,
                        [current_version |-> call.document.current_version + 1])
               ELSE call.update_data
       IN /\ documents' = UpdateOne(documents, call.id, update_data)
          /\ Await(r, [call EXCEPT !.pc = "find_updated"])
    /\ UNCHANGED <<users, organisations, clients, projects, meetings,
                   issued, now, browser>>

UpdateDocument_FindUpdated(r) ==
    /\ At(r, "update_document", "find_updated")
    /\ LET call == inflight[r]
       IN Respond(r, RequestBy("update_document", call.id, call.body,
                               call.user),
                  FindUpdated(documents, call.id))
    /\ UNCHANGED <<users, organisations, clients, projects, documents,
                   meetings, issued, now, browser>>

SignDocument_FindDocument(r, current_user, document_id) ==
    /\ inflight[r] = Idle
    /\ LET request ==
               RequestBy("sign_document", document_id, NoData, current_user)
       IN IF ~Stored(documents, document_id)
          THEN Respond(r, request,
                   HTTPException(HTTP_404_NOT_FOUND, "Document not found"))
          ELSE IF ~documents[document_id].requires_signature
          THEN Respond(r, request,
                   HTTPException(HTTP_400_BAD_REQUEST,
                       "This document does not require a signature"))
          ELSE IF documents[document_id].signed
          THEN Respond(r, request,
                   HTTPException(HTTP_400_BAD_REQUEST,
                       "This document is already signed"))
          ELSE Await(r, [op |-> "sign_document", pc |-> "set",
                         user |-> current_user, id |-> document_id,
                         at |-> now])
    /\ UNCHANGED <<users, organisations, clients, projects, documents,
                   meetings, issued, now, browser>>

SignDocument_Set(r) ==
    /\ At(r, "sign_document", "set")
    /\ LET call == inflight[r]
           sign_data ==
               [signed |-> TRUE, signed_at |-> call.at,
                signed_by |-> call.user, updated_at |-> call.at]
       IN /\ documents' = UpdateOne(documents, call.id, sign_data)
          /\ Await(r, [call EXCEPT !.pc = "find_updated"])
    /\ UNCHANGED <<users, organisations, clients, projects, meetings,
                   issued, now, browser>>

SignDocument_FindUpdated(r) ==
    /\ At(r, "sign_document", "find_updated")
    /\ LET call == inflight[r]
       IN Respond(r, RequestBy("sign_document", call.id, NoData, call.user),
                  FindUpdated(documents, call.id))
    /\ UNCHANGED <<users, organisations, clients, projects, documents,
                   meetings, issued, now, browser>>

UpdateMeeting_FindMeeting(r, meeting_id, body) ==
    /\ inflight[r] = Idle
    /\ IF ~Stored(meetings, meeting_id)
       THEN Respond(r, Request("update_meeting", meeting_id, body),
                    HTTPException(HTTP_404_NOT_FOUND, "Meeting not found"))
       ELSE LET update_data == SetFields(body, [updated_at |-> now])
            IN Await(r, [op |-> "update_meeting",
                         pc |-> UpdateAwait("find_one", update_data, FALSE),
                         id |-> meeting_id, body |-> body,
                         update_data |-> update_data])
    /\ UNCHANGED <<users, organisations, clients, projects, documents,
                   meetings, issued, now, browser>>

UpdateMeeting_FindClient(r) ==
    /\ At(r, "update_meeting", "find_client")
    /\ LET call == inflight[r]
       IN IF ~Stored(clients, call.update_data.client_id)
          THEN Respond(r, Request("update_meeting", call.id, call.body),
                       HTTPException(HTTP_404_NOT_FOUND, "Client not found"))
          ELSE Await(r, [call EXCEPT
                           !.pc = UpdateAwait("find_client", call.update_data,
                                              FALSE)])
    /\ UNCHANGED <<users, organisations, clients, projects, documents,
                   meetings, issued, now, browser>>

UpdateMeeting_FindProject(r) ==
    /\ At(r, "update_meeting", "find_project")
    /\ LET call == inflight[r]
       IN IF ~Stored(projects, call.update_data.project_id)
          THEN Respond(r, Request("update_meeting", call.id, call.body),
                       HTTPException(HTTP_404_NOT_FOUND, "Project not found"))
          ELSE Await(r, [call EXCEPT
                           !.pc = UpdateAwait("find_project", call.update_data,
                                              FALSE)])
    /\ UNCHANGED <<users, organisations, clients, projects, documents,
                   meetings, issued, now, browser>>

UpdateMeeting_Set(r) ==
    /\ At(r, "update_meeting", "set")
    /\ LET call == inflight[r]
       IN /\ meetings' = UpdateOne(meetings, call.id, call.update_data)
          /\ Await(r, [call EXCEPT !.pc = "find_updated"])
    /\ UNCHANGED <<users, organisations, clients, projects, documents,
                   issued, now, browser>>

UpdateMeeting_FindUpdated(r) ==
    /\ At(r, "update_meeting", "find_updated")
    /\ LET call == inflight[r]
       IN Respond(r, Request("update_meeting", call.id, call.body),
                  FindUpdated(meetings, call.id))
    /\ UNCHANGED <<users, organisations, clients, projects, documents,
                   meetings, issued, now, browser>>

(* ------------------------------ indexes ------------------------------- *)
DATABASE_NAME == "rogue_drones"

\* create_indexes is handed db.get_database(), the database, and subscripts
\* it with the database name once more: its `database` is the collection
\* DATABASE_NAME of that database, and database.<name> is the collection
\* named DATABASE_NAME.<name>
IndexedCollection(name) == DATABASE_NAME \o "." \o name

\* the unique indexes create_indexes asks for: <<collection, field>>
UniqueIndexes ==
    {<<IndexedCollection("users"), "email">>,
     <<IndexedCollection("clients"), "email">>,
     <<IndexedCollection("organisations"), "name">>}

\* a write that would leave the collection named coll_name with rec's value
\* of a uniquely indexed field in a record other than id
DuplicateKeyError(coll_name, coll, id, rec) ==
    \E f \in DOMAIN rec :
       /\ <<coll_name, f>> \in UniqueIndexes
       /\ \E i \in DOMAIN coll \ {id} : coll[i][f] = rec[f]

\* an exception no handler catches
Unhandled ==
    HTTPException(HTTP_500_INTERNAL_SERVER_ERROR, "Internal Server Error")

(* create_client and update_client, one database call a step *)
CreateClient_FindEmail(r, body) ==
    /\ inflight[r] = Idle
    /\ IF Matching(clients, "email", body.email) # {}
       THEN Respond(r, Request("create_client", NoId, body),
                    HTTPException(HTTP_400_BAD_REQUEST,
                        "A client with this email already exists."))
       ELSE Await(r, [op |-> "create_client", pc |-> "insert_one",
                      body |-> body, at |-> now])
    /\ UNCHANGED <<users, organisations, clients, projects, documents,
                   meetings, issued, now, browser>>

CreateClient_InsertOne(r) ==
    /\ At(r, "create_client", "insert_one")
    /\ LET call == inflight[r]
           id == issued.clients + 1
           client_data ==
               SetFields(call.body,
                         [created_at |-> call.at, updated_at |-> call.at])
       IN IF DuplicateKeyError("clients", clients, id, client_data)
          THEN /\ Respond(r, Request("create_client", NoId, call.body),
                          Unhandled)
               /\ UNCHANGED <<clients, issued>>
          ELSE /\ clients' = InsertOne(clients, id, client_data)
               /\ issued' = [issued EXCEPT !.clients = id]
               /\ Respond(r, Request("create_client", NoId, call.body),
                          Returned(id, client_data))
    /\ UNCHANGED <<users, organisations, projects, documents, meetings, now,
                   browser>>

UpdateClient_FindClient(r, client_id, body) ==
    /\ inflight[r] = Idle
    /\ IF ~Stored(clients, client_id)
       THEN Respond(r, Request("update_client", client_id, body),
                    HTTPException(HTTP_404_NOT_FOUND, "Client not found"))
       ELSE Await(r, [op |-> "update_client", pc |-> "set",
                      id |-> client_id, body |-> body,
                      update_data |-> SetFields(body, [updated_at |-> now])])
    /\ UNCHANGED <<users, organisations, clients, projects, documents,
                   meetings, issued, now, browser>>

UpdateClient_Set(r) ==
    /\ At(r, "update_client", "set")
    /\ LET call == inflight[r]
       IN IF /\ Stored(clients, call.id)
             /\ DuplicateKeyError("clients", clients, call.id,
                                  call.update_data)
          THEN /\ Respond(r, Request("update_client", call.id, call.body),
                          Unhandled)
               /\ UNCHANGED clients
          ELSE /\ clients' = UpdateOne(clients, call.id, call.update_data)
               /\ Await(r, [call EXCEPT !.pc = "find_updated"])
    /\ UNCHANGED <<users, organisations, projects, documents, meetings,
                   issued, now, browser>>

UpdateClient_FindUpdated(r) ==
    /\ At(r, "update_client", "find_updated")
    /\ LET call == inflight[r]
       IN Respond(r, Request("update_client", call.id, call.body),
                  FindUpdated(clients, call.id))
    /\ UNCHANGED <<users, organisations, clients, projects, documents,
                   meetings, issued, now, browser>>

(* add_key_points, one database call a step *)
\* a $push with $each that adds only the values the array does not hold
PushEach_AddToSet(coll, id, field, values) ==
    [i \in DOMAIN coll |->
        IF i = id
        THEN LET old == IF field \in DOMAIN coll[i] THEN coll[i][field]
                        ELSE <<>>
                 held == {old[k] : k \in 1 .. Len(old)}
             IN SetFields(coll[i],
                    [f \in {field} |->
                        old \o SelectSeq(values, LAMBDA v : v \notin held)])
        ELSE coll[i]]

\* collection.update_one({"_id": id}, {"$push": {field: {"$each": values}}}):
\* the values go to the end of the array, which is made when it is missing
PushEach(coll, id, field, values) ==
    [i \in DOMAIN coll |->
        IF i = id
        THEN LET old == IF field \in DOMAIN coll[i] THEN coll[i][field]
                        ELSE <<>>
             IN SetFields(coll[i], [f \in {field} |-> old \o values])
        ELSE coll[i]]

AddKeyPoints_FindMeeting(r, meeting_id, key_points) ==
    /\ inflight[r] = Idle
    /\ IF ~Stored(meetings, meeting_id)
       THEN Respond(r, Request("add_key_points", meeting_id, key_points),
                    HTTPException(HTTP_404_NOT_FOUND, "Meeting not found"))
       ELSE Await(r, [op |-> "add_key_points", pc |-> "push",
                      id |-> meeting_id, key_points |-> key_points])
    /\ UNCHANGED <<users, organisations, clients, projects, documents,
                   meetings, issued, now, browser>>

\* the $push and the $set are one update_one
AddKeyPoints_Push(r) ==
    /\ At(r, "add_key_points", "push")
    /\ LET call == inflight[r]
       IN /\ meetings' = UpdateOne(PushEach(meetings, call.id, "key_points",
                                            call.key_points),
                                   call.id, [updated_at |-> now])
          /\ Await(r, [call EXCEPT !.pc = "find_updated"])
    /\ UNCHANGED <<users, organisations, clients, projects, documents,
                   issued, now, browser>>

AddKeyPoints_FindUpdated(r) ==
    /\ At(r, "add_key_points", "find_updated")
    /\ LET call == inflight[r]
       IN Respond(r, Request("add_key_points", call.id, call.key_points),
                  FindUpdated(meetings, call.id))
    /\ UNCHANGED <<users, organisations, clients, projects, documents,
                   meetings, issued, now, browser>>

(* delete_document, one database call a step *)
DeleteDocument_FindDocument(r, document_id) ==
    /\ inflight[r] = Idle
    /\ IF ~Stored(documents, document_id)
       THEN Respond(r, Request("delete_document", document_id, NoData),
                    HTTPException(HTTP_404_NOT_FOUND, "Document not found"))
       ELSE IF documents[document_id].signed
       THEN Respond(r, Request("delete_document", document_id, NoData),
                    HTTPException(HTTP_400_BAD_REQUEST,
                        "Cannot delete a signed document"))
       ELSE Await(r, [op |-> "delete_document", pc |-> "delete_one",
                      id |-> document_id])
    /\ UNCHANGED <<users, organisations, clients, projects, documents,
                   meetings, issued, now, browser>>

DeleteDocument_DeleteOne(r) ==
    /\ At(r, "delete_document", "delete_one")
    /\ documents' = DeleteOne(documents, inflight[r].id)
    /\ Respond(r, Request("delete_document", inflight[r].id, NoData),
               Returned(NoId, NoData))
    /\ UNCHANGED <<users, organisations, clients, projects, meetings,
                   issued, now, browser>>

(* ------------------------------ frontend ------------------------------ *)
ApiModules == {"clients", "organisations", "projects", "documents", "meetings"}

\* The axios instance a module sends its requests with: "shared" is the one
\* createApiClient makes, "own" is one the module makes with axios.create
\* and gives a request interceptor only.  The sources hold both texts of
\* clientApi, organisationApi, documentApi and meetingApi, and one text of
\* projectApi; a build has one text of each.
ApiClientTexts ==
    [clients |-> {"shared", "own"}, organisations |-> {"shared", "own"},
     projects |-> {"own"}, documents |-> {"shared", "own"},
     meetings |-> {"shared", "own"}]

Builds ==
    {b \in [ApiModules -> {"shared", "own"}] :
        \A m \in ApiModules : b[m] \in ApiClientTexts[m]}

\* no response arrived (network error, timeout)
NoResponse == 0

\* axios settles the promise with the response when validateStatus accepts it
Fulfilled(status) == status >= 200 /\ status < 300

\* the answer to a request of the browser, as req/resp record it
BrowserRequest(op, id) ==
    [op |-> op, id |-> id, body |-> NoData, token |-> localStorage.token]

Answered(status) ==
    IF Fulfilled(status) THEN Returned(NoId, NoData)
    ELSE HTTPException(status, "")

\* the response interceptor of createApiClient, on a rejected request
ResponseInterceptor(status) ==
    IF status # NoResponse /\ status = HTTP_401_UNAUTHORIZED
    THEN /\ localStorage' = [localStorage EXCEPT !.token = None]
         /\ location' = "/login"
    ELSE UNCHANGED <<localStorage, location>>

\* module's axios instance gets the answer status to a request
Axios(module, status) ==
    /\ req' = BrowserRequest(module, NoId)
    /\ resp' = Answered(status)
    /\ IF page.build[module] = "shared" /\ ~Fulfilled(status)
       THEN ResponseInterceptor(status)
       ELSE UNCHANGED <<localStorage, location>>

\* the answer makes the browser load /login: every component is gone
Unloads(module, status) ==
    /\ page.build[module] = "shared"
    /\ status = HTTP_401_UNAUTHORIZED

LoginDocument == [name |-> "login", build |-> page.build]

\* a request of an API module is answered with status
ApiCall(module, status) ==
    /\ Axios(module, status)
    /\ UNCHANGED <<page, backend>>

\* Layout's effect on a page other than /login and /register
FetchUserInfo(status) ==
    /\ location \notin {"/login", "/register"}
    /\ IF localStorage.token = None
       THEN /\ location' = "/login"
            /\ UNCHANGED <<localStorage, page, req, resp>>
       ELSE /\ req' = BrowserRequest("auth/me", NoId)
            /\ resp' = Answered(status)
            /\ IF status = NoResponse
               THEN /\ page' = [page EXCEPT !.authError = TRUE]
                    /\ UNCHANGED <<localStorage, location>>
               ELSE IF Fulfilled(status)
               THEN /\ page' = [page EXCEPT !.userName = "Test User"]
                    /\ UNCHANGED <<localStorage, location>>
               ELSE IF status \in {HTTP_401_UNAUTHORIZED, HTTP_403_FORBIDDEN}
               THEN /\ localStorage' = [localStorage EXCEPT !.token = None]
                    /\ location' = "/login"
                    /\ UNCHANGED page
               ELSE /\ page' = [page EXCEPT !.authError = TRUE]
                    /\ UNCHANGED <<localStorage, location>>
    /\ UNCHANGED backend

\* handleSubmit of the login page, answered with a token
LoginPage(access_token) ==
    /\ location = "/login"
    /\ localStorage' = [localStorage EXCEPT !.token = access_token]
    /\ location' = "/"
    /\ UNCHANGED <<page, req, resp, backend>>

\* a Link or a router.push of the home page
Navigate(path) ==
    /\ location' = path
    /\ UNCHANGED <<localStorage, page, req, resp, backend>>

(* ---------------------------- ClientDetail ---------------------------- *)
TabType == {"info", "projects", "meetings", "documents"}

\* useState of isLoading
InitialIsLoading ==
    [client |-> TRUE, organisation |-> FALSE, projects |-> FALSE,
     meetings |-> FALSE, documents |-> FALSE]

\* the component after its first render and the start of fetchClientData:
\* withApiStatus has set status 'loading' and awaits getClient
ClientDetail(build) ==
    [name |-> "ClientDetail", build |-> build,
     client |-> NoData, organisation |-> NoId,
     projects |-> <<>>, meetings |-> <<>>, documents |-> <<>>,
     activeTab |-> "info",
     isLoading |-> [InitialIsLoading EXCEPT !.client = TRUE],
     status |-> "loading", error |-> "",
     fetchClientData |-> [pc |-> "getClient", isLoading |-> InitialIsLoading],
     fetches |-> {}]

\* fetchClientData from the answer of getClient up to its next await
FetchClientData_GetClient(status, result) ==
    /\ page.name = "ClientDetail"
    /\ page.fetchClientData.pc = "getClient"
    /\ Axios("clients", status)
    /\ LET isLoading == page.fetchClientData.isLoading
       IN  IF Unloads("clients", status) THEN page' = LoginDocument
           ELSE IF Fulfilled(status)
           THEN IF result.organisation_id # NoId
                THEN page' = [page EXCEPT
                        !.status = "success", !.error = "",
                        !.client = result,
                        !.isLoading = [isLoading EXCEPT !.organisation = TRUE],
                        !.fetchClientData.pc = "getOrganisation"]
                ELSE page' = [page EXCEPT
                        !.status = "success", !.error = "",
                        !.client = result,
                        !.isLoading = [isLoading EXCEPT !.client = FALSE],
                        !.fetchClientData.pc = "done"]
           ELSE page' = [page EXCEPT
                   !.status = "error", !.error = "Error",
                   !.isLoading = [isLoading EXCEPT !.client = FALSE],
                   !.fetchClientData.pc = "done"]
    /\ UNCHANGED backend

\* fetchClientData from the answer of getOrganisation to its end
FetchClientData_GetOrganisation(status) ==
    /\ page.name = "ClientDetail"
    /\ page.fetchClientData.pc = "getOrganisation"
    /\ Axios("organisations", status)
    /\ LET isLoading == page.fetchClientData.isLoading
       IN  IF Unloads("organisations", status) THEN page' = LoginDocument
           ELSE page' = [page EXCEPT
                   !.organisation =
                       IF Fulfilled(status) THEN page.client.organisation_id
                       ELSE @,
                   !.isLoading = [isLoading EXCEPT !.organisation = FALSE],
                   !.fetchClientData.pc = "done"]
    /\ UNCHANGED backend

\* what the component returns: the spinner, the error box, or the tabs
Rendered ==
    IF page.name # "ClientDetail" THEN "nothing"
    ELSE IF page.isLoading.client THEN "LoadingSpinner"
    ELSE IF DOMAIN page.client = {} THEN "Error"
    ELSE "tabs"

\* handleTabChange, and the effect of the tab that became active, up to
\* its await
HandleTabChange(tab) ==
    /\ Rendered = "tabs"
    /\ Cardinality(page.fetches) < MaxFetches
    /\ IF tab # page.activeTab /\ tab # "info" /\ Len(page[tab]) = 0
       THEN page' = [page EXCEPT
               !.activeTab = tab,
               !.isLoading = [page.isLoading EXCEPT ![tab] = TRUE],
               !.fetches = @ \cup {[tab |-> tab, isLoading |-> page.isLoading]}]
       ELSE page' = [page EXCEPT !.activeTab = tab]
    /\ UNCHANGED <<localStorage, location, req, resp, backend>>

\* the tab requests not answered yet
Fetches == IF page.name = "ClientDetail" THEN page.fetches ELSE {}

\* fetchProjects, fetchMeetings, fetchDocuments from the answer to the end
FetchTab_Settled(fetch, status, result) ==
    /\ fetch \in Fetches
    /\ Axios(fetch.tab, status)
    /\ IF Unloads(fetch.tab, status) THEN page' = LoginDocument
       ELSE page' = [page EXCEPT
               ![fetch.tab] = IF Fulfilled(status) THEN result ELSE @,
               !.isLoading = [fetch.isLoading EXCEPT ![fetch.tab] = FALSE],
               !.fetches = @ \ {fetch}]
    /\ UNCHANGED backend

(* ----------------- clients and organisations list pages ---------------- *)
\* the API module a list page loads from and deletes with
ListPages == [ClientsPage |-> "clients", OrganisationsPage |-> "organisations"]

\* the page after its first render and the start of its fetch effect:
\* withApiStatus has set status 'loading' and awaits the list
ListPage(name, build) ==
    [name |-> name, build |-> build,
     items |-> <<>>, status |-> "loading", error |-> "", deleteId |-> NoId,
     fetching |-> TRUE, deletes |-> {}]

OnListPage == page.name \in DOMAIN ListPages

\* fetchClients, fetchOrganisations from the answer to the end
FetchList_Settled(status, result) ==
    /\ OnListPage
    /\ page.fetching
    /\ Axios(ListPages[page.name], status)
    /\ IF Unloads(ListPages[page.name], status) THEN page' = LoginDocument
       ELSE IF Fulfilled(status)
       THEN page' = [page EXCEPT !.status = "success", !.error = "",
                                 !.items = result, !.fetching = FALSE]
       ELSE page' = [page EXCEPT !.status = "error", !.error = "Error",
                                 !.fetching = FALSE]
    /\ UNCHANGED backend

\* the rows of the table
Displayed == IF OnListPage THEN {page.items[i] : i \in DOMAIN page.items} ELSE {}

\* items.filter(item => item._id !== id)
Filter(items, id) == SelectSeq(items, LAMBDA item : item # id)

\* handleDelete, confirmed, up to its await: the Delete button of a row
\* is disabled while deleteId is the row's id
HandleDelete(id) ==
    /\ id \in Displayed
    /\ page.deleteId # id
    /\ page' = [page EXCEPT
          !.deleteId = id, !.status = "loading", !.error = "",
          !.deletes = @ \cup {[id |-> id, items |-> page.items]}]
    /\ UNCHANGED <<localStorage, location, req, resp, backend>>

\* the delete requests not answered yet
Deletes == IF OnListPage THEN page.deletes ELSE {}

\* handleDelete from the answer to the end; delete.items is the list of
\* the render that made this handleDelete
HandleDelete_Settled(delete, status) ==
    /\ delete \in Deletes
    /\ Axios(ListPages[page.name], status)
    /\ IF Unloads(ListPages[page.name], status) THEN page' = LoginDocument
       ELSE IF Fulfilled(status)
       THEN page' = [page EXCEPT
               !.status = "success", !.error = "",
               !.items = Filter(delete.items, delete.id),
               !.deleteId = NoId,
               !.deletes = @ \ {delete}]
       ELSE page' = [page EXCEPT
               !.status = "error", !.error = "Error",
               !.deletes = @ \ {delete}]
    /\ UNCHANGED backend

(* ----------------------------- AuthProvider ---------------------------- *)
publicRoutes == {"/login", "/register"}

\* the body of GET /auth/me for a token
Me(token) == "user of " \o token

NoLogin == [pc |-> "none", token |-> None, result |-> FALSE]

\* useState of the provider, before its effect has run
AuthProvider ==
    [name |-> "AuthProvider", user |-> None, loading |-> TRUE, error |-> None,
     checks |-> {}, login |-> NoLogin]

\* checkAuth up to its await, on a page pg at pathname, with storage ls:
\* the provider and the pathname it leaves.  Without a token it sends a
\* private route to /login, where the effect runs once more and stays.
CheckAuth(ls, pg, pathname) ==
    IF ls.token = None
    THEN [page |-> [pg EXCEPT !.loading = FALSE, !.user = None],
          location |-> IF pathname \in publicRoutes THEN pathname
                       ELSE "/login"]
    ELSE [page |-> [pg EXCEPT !.checks =
                       @ \cup {[token |-> ls.token, pathname |-> pathname]}],
          location |-> pathname]

\* router.push(pathname): the effect runs again when the pathname changes
RouterPush(ls, pg, pathname) ==
    IF pathname = location THEN [page |-> pg, location |-> location]
    ELSE CheckAuth(ls, pg, pathname)

OnAuthProvider == page.name = "AuthProvider"

\* the auth checks not answered yet
Checks == IF OnAuthProvider THEN page.checks ELSE {}

AuthRequest(op, token) ==
    [op |-> op, id |-> NoId, body |-> NoData, token |-> token]

\* checkAuth from the answer of /auth/me to its end; pathname is what
\* router.pathname reads then
CheckAuth_Settled(check, status, pathname) ==
    /\ check \in Checks
    /\ pathname \in {check.pathname, location}
    /\ req' = AuthRequest("auth/me", check.token)
    /\ resp' = Answered(status)
    /\ IF Fulfilled(status)
       THEN LET pg == [page EXCEPT !.user = Me(check.token),
                                   !.error = None, !.loading = FALSE,
                                   !.checks = @ \ {check}]
                after == IF pathname \in publicRoutes
                         THEN RouterPush(localStorage, pg, "/")
                         ELSE [page |-> pg, location |-> location]
            IN  /\ page' = after.page
                /\ location' = after.location
                /\ UNCHANGED localStorage
       ELSE LET ls == [localStorage EXCEPT !.token = None]
                pg == [page EXCEPT !.user = None, !.loading = FALSE,
                                   !.checks = @ \ {check}]
                after == IF pathname \notin publicRoutes
                         THEN RouterPush(ls, pg, "/login")
                         ELSE [page |-> pg, location |-> location]
            IN  /\ localStorage' = ls
                /\ page' = after.page
                /\ location' = after.location
    /\ UNCHANGED backend

\* login() up to its first await
Login ==
    /\ OnAuthProvider
    /\ page.login.pc \in {"none", "resolved"}
    /\ page' = [page EXCEPT !.loading = TRUE, !.error = None,
                            !.login = [NoLogin EXCEPT !.pc = "login"]]
    /\ UNCHANGED <<localStorage, location, req, resp, backend>>

\* the message login() sets for a rejected request
LoginError(status) ==
    IF status = NoResponse THEN "No response from server"
    ELSE IF status = HTTP_401_UNAUTHORIZED THEN "Invalid email or password"
    ELSE "Server error"

\* login() from the answer of POST /auth/login to its second await
Login_Token(status, access_token) ==
    /\ OnAuthProvider
    /\ page.login.pc = "login"
    /\ req' = AuthRequest("auth/login", None)
    /\ resp' = Answered(status)
    /\ IF Fulfilled(status)
       THEN /\ localStorage' = [localStorage EXCEPT !.token = access_token]
            /\ page' = [page EXCEPT
                  !.login = [pc |-> "me", token |-> access_token,
                             result |-> FALSE]]
       ELSE /\ page' = [page EXCEPT
                  !.error = LoginError(status), !.loading = FALSE,
                  !.login = [NoLogin EXCEPT !.pc = "resolved"]]
            /\ UNCHANGED localStorage
    /\ UNCHANGED <<location, backend>>

\* login() from the answer of /auth/me to its end
Login_Me(status) ==
    /\ OnAuthProvider
    /\ page.login.pc = "me"
    /\ req' = AuthRequest("auth/me", page.login.token)
    /\ resp' = Answered(status)
    /\ IF Fulfilled(status)
       THEN LET pg == [page EXCEPT
                          !.user = Me(page.login.token), !.loading = FALSE,
                          !.login = [@ EXCEPT !.pc = "resolved",
                                              !.result = TRUE]]
                after == RouterPush(localStorage, pg, "/")
            IN  /\ page' = after.page
                /\ location' = after.location
       ELSE /\ page' = [page EXCEPT
                  !.error = LoginError(status), !.loading = FALSE,
                  !.login = [@ EXCEPT !.pc = "resolved"]]
            /\ UNCHANGED location
    /\ UNCHANGED <<localStorage, backend>>

Logout ==
    /\ OnAuthProvider
    /\ LET ls == [localStorage EXCEPT !.token = None]
           after == RouterPush(ls, [page EXCEPT !.user = None], "/login")
       IN  /\ localStorage' = ls
           /\ page' = after.page
           /\ location' = after.location
    /\ UNCHANGED <<req, resp, backend>>

\* a route change made by a Link or by another component
Route(pathname) ==
    /\ OnAuthProvider
    /\ LET after == RouterPush(localStorage, page, pathname)
       IN  /\ page' = after.page
           /\ location' = after.location
    /\ UNCHANGED <<localStorage, req, resp, backend>>

(* --------------------------- initial state ---------------------------- *)
\* Empty collections after startup; no request served yet.
Init ==
    /\ users = <<>>
    /\ organisations = <<>>
    /\ clients = <<>>
    /\ projects = <<>>
    /\ documents = <<>>
    /\ meetings = <<>>
    /\ issued = [users |-> 0, organisations |-> 0, clients |-> 0,
                 projects |-> 0, documents |-> 0, meetings |-> 0]
    /\ now = 0
    /\ req = Request("none", NoId, NoData)
    /\ resp = Returned(NoId, NoData)
    /\ inflight = NoCalls
    /\ NoBrowser

(* ------------------ clients and organisations requests ---------------- *)
OrganisationNames == {"Acme", "Globex"}
OrganisationBodies == [name : OrganisationNames]

\* ids a request may name: every id ever issued and one never issued
OrgIds == 1 .. (MaxOrgs + 1)
ClientIds == 1 .. (MaxClients + 1)

Emails == {"bob@example.com", "eve@example.com"}

RefClientBodies ==
    [name : {"Bob"}, email : Emails, phone : {None},
     organisation_id : {NoId} \cup OrgIds, notes : {None},
     initial_query : {None}]

RefClientUpdates == [organisation_id : {NoId} \cup OrgIds]

NextRefs ==
    \/ \E b \in OrganisationBodies :
          issued.organisations < MaxOrgs /\ CreateOrganisation(b)
    \/ \E o \in OrgIds : DeleteOrganisation(o)
    \/ \E b \in RefClientBodies :
          issued.clients < MaxClients /\ CreateClient(b)
    \/ \E c \in ClientIds : ReadClient(c)
    \/ \E c \in ClientIds, b \in RefClientUpdates : UpdateClient(c, b)
    \/ \E c \in ClientIds : DeleteClient(c)

SpecRefs == Init /\ [][NextRefs]_vars

(* ----------------------- client partial updates ----------------------- *)
\* a field the PUT body leaves out
Unset == "Unset"
UnsetId == -1

IsUnset(f, v) ==
    IF f \in {"organisation_id", "client_id", "project_id"} THEN v = UnsetId
    ELSE IF f = "requires_signature" THEN FALSE
    ELSE v = Unset

\* the JSON body of a PUT: the fields it supplies, with their values
SuppliedBody(choice) ==
    LET supplied == {f \in DOMAIN choice : ~IsUnset(f, choice[f])}
    IN [f \in supplied |-> choice[f]]

ClientUpdateBodies ==
    {SuppliedBody(ch) :
        ch \in [name : {Unset, "Updated Client Name"},
                email : {Unset, "eve@example.com"},
                phone : {Unset, None},
                organisation_id : {UnsetId, NoId},
                notes : {Unset, "Updated notes"},
                initial_query : {Unset, None}]}

\* the stored organisation and client the client tests start from
TestOrganisation ==
    [name |-> "Test Organisation", created_at |-> 0, updated_at |-> 0]

TestClient ==
    [name |-> "Test Client", email |-> "client@example.com",
     phone |-> "123-456-7890", organisation_id |-> 1,
     notes |-> "Test client notes", initial_query |-> "Initial test query",
     created_at |-> 0, updated_at |-> 0]

InitClientUpdate ==
    /\ users = <<>>
    /\ organisations = InsertOne(<<>>, 1, TestOrganisation)
    /\ clients = InsertOne(<<>>, 1, TestClient)
    /\ projects = <<>>
    /\ documents = <<>>
    /\ meetings = <<>>
    /\ issued = [users |-> 0, organisations |-> 1, clients |-> 1,
                 projects |-> 0, documents |-> 0, meetings |-> 0]
    /\ now = 0
    /\ req = Request("none", NoId, NoData)
    /\ resp = Returned(NoId, NoData)
    /\ inflight = NoCalls
    /\ NoBrowser

NextClientUpdate ==
    \/ Tick
    \/ \E c \in {1, 2}, b \in ClientUpdateBodies : UpdateClient(c, b)

SpecClientUpdate == InitClientUpdate /\ [][NextClientUpdate]_vars

(* ------------------------- credential store --------------------------- *)
\* pwd_context.hash: a bcrypt digest of the password under a fresh salt
Salts == {"salt1", "salt2"}

get_password_hash(password, salt) ==
    [scheme |-> "bcrypt", salt |-> salt, digest |-> <<salt, password>>]

\* pwd_context.verify: recompute under the stored salt and compare
verify_password(plain_password, hashed_password) ==
    get_password_hash(plain_password, hashed_password.salt) = hashed_password

(* ------------------------------- tokens ------------------------------- *)
\* str(ObjectId): the hexadecimal text of an id
ObjectIdHex(id) == "oid-" \o DecimalStr(id)

\* ObjectId(text): the id the text spells, NoId when it spells none
ObjectId(text) ==
    IF \E i \in 1 .. 9 : ObjectIdHex(i) = text
    THEN CHOOSE i \in 1 .. 9 : ObjectIdHex(i) = text
    ELSE NoId

JWT_SECRET == "change_this_to_a_secure_secret"
JWT_ALGORITHM == "HS256"

\* the signature part of a compact JWT
jwt_sign(header, payload, key) == <<header, payload, key>>

\* jwt.encode(to_encode, key, algorithm=...)
jwt_encode(to_encode, key, algorithm) ==
    [header |-> algorithm, payload |-> to_encode,
     signature |-> jwt_sign(algorithm, to_encode, key)]

\* jwt.decode(token, key, algorithms=[...]) at time at, then
\* TokenPayload(**payload): the subject, or a JWTError
jwt_decode(token, key, algorithms, at) ==
    IF token.header \notin algorithms
    THEN [error |-> "JWTError", sub |-> ""]
    ELSE IF token.signature # jwt_sign(token.header, token.payload, key)
    THEN [error |-> "JWTError", sub |-> ""]
    ELSE IF token.payload.exp < at
    THEN [error |-> "ExpiredSignatureError", sub |-> ""]
    ELSE [error |-> "", sub |-> token.payload.sub]

\* settings.ACCESS_TOKEN_EXPIRE_MINUTES, one clock tick being a minute
ACCESS_TOKEN_EXPIRE_MINUTES == 30

\* user_collection.find_one({"email": email}): the first match, if any
get_user_by_email(email) ==
    IF Matching(users, "email", email) = {} THEN NoId
    ELSE CHOOSE i \in Matching(users, "email", email) :
             \A j \in Matching(users, "email", email) : i <= j

\* the user's id, or NoId where the code returns None
authenticate_user(email, password) ==
    LET user == get_user_by_email(email)
    IN IF user = NoId THEN NoId
       ELSE IF ~verify_password(password, users[user].hashed_password)
       THEN NoId
       ELSE user

\* jwt.encode of {"exp": expire, "sub": str(subject)} under JWT_SECRET
create_access_token(subject, at) ==
    jwt_encode([exp |-> at + ACCESS_TOKEN_EXPIRE_MINUTES,
                sub |-> ObjectIdHex(subject)],
               JWT_SECRET, JWT_ALGORITHM)

\* the 401 of login_access_token
LoginRefused ==
    SetFields(HTTPException(HTTP_401_UNAUTHORIZED, "Incorrect email or password"),
              [headers |-> <<"WWW-Authenticate", "Bearer">>])

\* a login that tells an unknown email apart from a wrong password
LoginAccessToken_UserNotFound(username, password) ==
    /\ req' = Request("login", NoId, [username |-> username, password |-> password])
    /\ LET user == authenticate_user(username, password)
       IN resp' = IF get_user_by_email(username) = NoId
                  THEN HTTPException(HTTP_404_NOT_FOUND, "User not found")
                  ELSE IF user = NoId THEN LoginRefused
                  ELSE Returned(NoId,
                           [access_token |-> create_access_token(user, now),
                            token_type |-> "bearer"])
    /\ UNCHANGED <<users, organisations, clients, projects, documents,
                   meetings, issued, now, inflight, browser>>

LoginAccessToken(username, password) ==
    /\ req' = Request("login", NoId, [username |-> username, password |-> password])
    /\ LET user == authenticate_user(username, password)
       IN resp' = IF user = NoId THEN LoginRefused
                  ELSE Returned(NoId,
                           [access_token |-> create_access_token(user, now),
                            token_type |-> "bearer"])
    /\ UNCHANGED <<users, organisations, clients, projects, documents,
                   meetings, issued, now, inflight, browser>>

\* register_user / create_user; the ValueError is not caught by the route
RegisterUser(user_in, salt) ==
    /\ req' = Request("register", NoId, user_in)
    /\ IF get_user_by_email(user_in.email) # NoId
       THEN /\ resp' = HTTPException(HTTP_500_INTERNAL_SERVER_ERROR,
                                     "Internal Server Error")
            /\ UNCHANGED <<users, issued>>
       ELSE LET id == issued.users + 1
                user_data ==
                    SetFields(Restrict(user_in, DOMAIN user_in \ {"password"}),
                              [hashed_password |->
                                   get_password_hash(user_in.password, salt),
                               is_active |-> TRUE, is_admin |-> FALSE])
            IN /\ users' = InsertOne(users, id, user_data)
               /\ issued' = [issued EXCEPT !.users = id]
               /\ resp' = Returned(id, user_data)
    /\ UNCHANGED <<organisations, clients, projects, documents, meetings, now,
                   inflight, browser>>

(* --------------------------- current user ----------------------------- *)

\* the Authorization header: its scheme and its credentials
Bearer(token) == [scheme |-> "Bearer", token |-> token]

\* a string that is not a JWT, and the request with no Authorization header
MalformedToken == [header |-> "", payload |-> [exp |-> 0, sub |-> ""],
                   signature |-> <<>>]

NoAuthorization == [scheme |-> "", token |-> MalformedToken]

\* the user a dependency resolved, or the HTTPException it raised
Resolved(user) == [status |-> HTTP_200_OK, detail |-> "", user |-> user]
Raised(status, detail) == [status |-> status, detail |-> detail, user |-> NoId]

\* oauth2_scheme, then get_current_user
get_current_user(authorization) ==
    IF authorization.scheme # "Bearer"
    THEN Raised(HTTP_401_UNAUTHORIZED, "Not authenticated")
    ELSE LET token_data == jwt_decode(authorization.token, JWT_SECRET,
                                      {JWT_ALGORITHM}, now)
             user_id == ObjectId(token_data.sub)
         IN IF token_data.error # ""
            THEN Raised(HTTP_403_FORBIDDEN, "Could not validate credentials")
            ELSE IF user_id = NoId
            THEN Raised(HTTP_500_INTERNAL_SERVER_ERROR, "Internal Server Error")
            ELSE IF ~Stored(users, user_id)
            THEN Raised(HTTP_404_NOT_FOUND, "User not found")
            ELSE Resolved(user_id)

\* a dependency that lets every well-signed token through, expired or not
get_current_active_user_NoExpiry(authorization) ==
    LET a == authorization.token
        current_user ==
            IF authorization.scheme # "Bearer"
            THEN Raised(HTTP_401_UNAUTHORIZED, "Not authenticated")
            ELSE IF jwt_decode(a, JWT_SECRET, {JWT_ALGORITHM}, 0).error # ""
            THEN Raised(HTTP_403_FORBIDDEN, "Could not validate credentials")
            ELSE IF ~Stored(users, ObjectId(a.payload.sub))
            THEN Raised(HTTP_404_NOT_FOUND, "User not found")
            ELSE Resolved(ObjectId(a.payload.sub))
    IN IF current_user.status # HTTP_200_OK THEN current_user
       ELSE IF ~users[current_user.user].is_active
       THEN Raised(HTTP_400_BAD_REQUEST, "Inactive user")
       ELSE current_user

\* a dependency that resolves every token to the first stored user
get_current_active_user_FirstUser(authorization) ==
    LET current_user == get_current_user(authorization)
    IN IF current_user.status # HTTP_200_OK THEN current_user
       ELSE Resolved(CHOOSE u \in DOMAIN users : \A v \in DOMAIN users : u <= v)

get_current_active_user(authorization) ==
    LET current_user == get_current_user(authorization)
    IN IF current_user.status # HTTP_200_OK THEN current_user
       ELSE IF ~users[current_user.user].is_active
       THEN Raised(HTTP_400_BAD_REQUEST, "Inactive user")
       ELSE current_user

RequestWith(op, id, body, authorization) ==
    [op |-> op, id |-> id, body |-> body, authorization |-> authorization]

\* UserResponse: the user without hashed_password, its id as text
UserResponse(user) ==
    [id |-> ObjectIdHex(user), email |-> users[user].email,
     first_name |-> users[user].first_name,
     last_name |-> users[user].last_name,
     is_active |-> users[user].is_active, is_admin |-> users[user].is_admin]

\* a route that depends on get_current_active_user: the dependency is
\* resolved before the handler body runs
Protected(authorization, handler) ==
    LET current_user == get_current_active_user(authorization)
    IN IF current_user.status # HTTP_200_OK
       THEN /\ req' = RequestWith("protected", NoId, NoData, authorization)
            /\ resp' = HTTPException(current_user.status, current_user.detail)
            /\ UNCHANGED <<users, organisations, clients, projects, documents,
                           meetings, issued, now, inflight,
                         browser>>
       ELSE handler

\* GET /auth/me
ReadUsersMe(authorization) ==
    /\ req' = RequestWith("read_users_me", NoId, NoData, authorization)
    /\ LET current_user == get_current_active_user(authorization)
       IN resp' = IF current_user.status # HTTP_200_OK
                  THEN HTTPException(current_user.status, current_user.detail)
                  ELSE Returned(current_user.user,
                                UserResponse(current_user.user))
    /\ UNCHANGED <<users, organisations, clients, projects, documents,
                   meetings, issued, now, inflight, browser>>

\* the clock moves on to the first minute past the lifetime of a token
TickLifetime ==
    /\ now <= MaxTime
    /\ now' = now + ACCESS_TOKEN_EXPIRE_MINUTES + 1
    /\ UNCHANGED <<users, organisations, clients, projects, documents,
                   meetings, issued, req, resp, inflight, browser>>

\* the registered user the tests run as, and a second registered user
TestUser ==
    [email |-> "test@example.com", first_name |-> "Test", last_name |-> "User",
     hashed_password |-> get_password_hash("password", "salt1"),
     is_active |-> TRUE, is_admin |-> FALSE]

OtherUser ==
    [email |-> "newuser@example.com", first_name |-> "New", last_name |-> "User",
     hashed_password |-> get_password_hash("securepassword", "salt2"),
     is_active |-> TRUE, is_admin |-> FALSE]

RegisteredUsers == InsertOne(InsertOne(<<>>, 1, TestUser), 2, OtherUser)

(* --------------------- project deletion requests ---------------------- *)
ProjectIds == 1 .. (MaxProjects + 1)
DocumentIds == 1 .. (MaxDocs + 1)
MeetingIds == 1 .. (MaxMeetings + 1)

ProjectBodies ==
    [title : {"Test Project"}, client_id : {1, 2},
     organisation_id : {NoId, 1}, status : {"assessment"}]

PlainDocumentBodies ==
    [title : {"Contract"}, document_type : {"contract"}, client_id : {1},
     project_id : {NoId} \cup ProjectIds, status : {"draft"},
     requires_signature : {FALSE}, content : {"Initial content"}]

MeetingBodies ==
    [title : {"Kick-off"}, client_id : {1},
     project_id : {NoId} \cup ProjectIds, start_time : {0}]

\* the test fixtures: a user, an organisation and its client are stored
InitProjects ==
    /\ users = RegisteredUsers
    /\ organisations = InsertOne(<<>>, 1, TestOrganisation)
    /\ clients = InsertOne(<<>>, 1, TestClient)
    /\ projects = <<>>
    /\ documents = <<>>
    /\ meetings = <<>>
    /\ issued = [users |-> 2, organisations |-> 1, clients |-> 1,
                 projects |-> 0, documents |-> 0, meetings |-> 0]
    /\ now = 0
    /\ req = Request("none", NoId, NoData)
    /\ resp = Returned(NoId, NoData)
    /\ inflight = NoCalls
    /\ NoBrowser

NextProjects ==
    \/ \E b \in ProjectBodies :
          issued.projects < MaxProjects /\ CreateProject(b)
    \/ \E p \in ProjectIds : DeleteProject(p)
    \/ \E b \in PlainDocumentBodies :
          issued.documents < MaxDocs /\ CreateDocument(1, b)
    \/ \E d \in DocumentIds : DeleteDocument(d)
    \/ \E b \in MeetingBodies :
          issued.meetings < MaxMeetings /\ CreateMeeting(b)
    \/ \E m \in MeetingIds : DeleteMeeting(m)

SpecProjects == InitProjects /\ [][NextProjects]_vars

(* ------------------------ end-to-end workflow -------------------------- *)
\* register user and login have happened; the collections are empty
InitWorkflow ==
    /\ users = InsertOne(<<>>, 1, TestUser)
    /\ organisations = <<>>
    /\ clients = <<>>
    /\ projects = <<>>
    /\ documents = <<>>
    /\ meetings = <<>>
    /\ issued = [users |-> 1, organisations |-> 0, clients |-> 0,
                 projects |-> 0, documents |-> 0, meetings |-> 0]
    /\ now = 0
    /\ req = Request("none", NoId, NoData)
    /\ resp = Returned(NoId, NoData)
    /\ inflight = NoCalls
    /\ NoBrowser

AcmeBodies == [name : {"Acme"}]

BobBodies ==
    [name : {"Bob"}, email : {"bob@example.com"}, phone : {None},
     organisation_id : {NoId, 1}, notes : {None}, initial_query : {None}]

BobProjectBodies ==
    [title : {"Survey"}, client_id : {1}, organisation_id : {NoId, 1},
     status : {"assessment"}]

BobDocumentBodies ==
    [title : {"Contract"}, document_type : {"contract"}, client_id : {1},
     project_id : {NoId, 1}, status : {"draft"},
     requires_signature : BOOLEAN, content : {"Initial content"}]

NextWorkflow ==
    \/ \E b \in AcmeBodies : CreateOrganisation(b)
    \/ \E b \in BobBodies : CreateClient(b)
    \/ \E b \in BobProjectBodies :
          issued.projects < MaxProjects /\ CreateProject(b)
    \/ \E u \in DOMAIN users, b \in BobDocumentBodies :
          issued.documents < MaxDocs /\ CreateDocument(u, b)
    \/ \E u \in DOMAIN users, d \in DocumentIds : SignDocument(u, d)
    \/ \E d \in DocumentIds : DeleteDocument(d)

SpecWorkflow == InitWorkflow /\ [][NextWorkflow]_vars

(* -------------------------- document requests ------------------------- *)
TestProject ==
    [title |-> "Test Project", client_id |-> 1, organisation_id |-> 1,
     status |-> "assessment", created_at |-> 0, updated_at |-> 0]

StoredDocumentBodies ==
    [title : {"Contract"}, document_type : {"contract"}, client_id : {1},
     project_id : {1}, status : {"draft"}, requires_signature : BOOLEAN,
     content : {"Initial content"}]

DocumentUpdateBodies ==
    {SuppliedBody(ch) :
        ch \in [new_version_content : {Unset, "", "Second draft"},
                new_version_notes : {Unset, "Reviewed"}]}
    \cup [requires_signature : BOOLEAN]
    \cup [requires_signature : {FALSE}, new_version_content : {"Second draft"}]
    \cup [project_id : {2}]

\* a user, a client, a project and one document created by user 1 are stored
InitDocs ==
    /\ users = RegisteredUsers
    /\ organisations = InsertOne(<<>>, 1, TestOrganisation)
    /\ clients = InsertOne(<<>>, 1, TestClient)
    /\ projects = InsertOne(<<>>, 1, TestProject)
    /\ \E b \in StoredDocumentBodies :
          documents = InsertOne(<<>>, 1, NewDocument(b, 1, 0))
    /\ meetings = <<>>
    /\ issued = [users |-> 2, organisations |-> 1, clients |-> 1,
                 projects |-> 1, documents |-> 1, meetings |-> 0]
    /\ now = 0
    /\ req = Request("none", NoId, NoData)
    /\ resp = Returned(NoId, NoData)
    /\ inflight = NoCalls
    /\ NoBrowser

NextDocs ==
    \/ Tick
    \/ \E d \in {1, 2}, b \in DocumentUpdateBodies :
          /\ d \in DOMAIN documents => documents[d].current_version < MaxVersions
          /\ UpdateDocument(1, d, b)
    \/ \E u \in DOMAIN users, d \in {1, 2} : SignDocument(u, d)
    \/ \E d \in {1, 2} : DeleteDocument(d)

SpecDocs == InitDocs /\ [][NextDocs]_vars

(* --------------------------- login requests --------------------------- *)
LoginEmails == {"test@example.com", "invalid@example.com"}
Passwords == {"password", "wrongpassword"}

UserCreateBodies ==
    [email : LoginEmails, first_name : {"Test"}, last_name : {"User"},
     password : Passwords]

InitAuth ==
    /\ users = <<>>
    /\ organisations = <<>>
    /\ clients = <<>>
    /\ projects = <<>>
    /\ documents = <<>>
    /\ meetings = <<>>
    /\ issued = [users |-> 0, organisations |-> 0, clients |-> 0,
                 projects |-> 0, documents |-> 0, meetings |-> 0]
    /\ now = 0
    /\ req = Request("none", NoId, NoData)
    /\ resp = Returned(NoId, NoData)
    /\ inflight = NoCalls
    /\ NoBrowser

NextAuth ==
    \/ Tick
    \/ \E b \in UserCreateBodies, salt \in Salts :
          issued.users < MaxUsers /\ RegisterUser(b, salt)
    \/ \E e \in LoginEmails, p \in Passwords : LoginAccessToken(e, p)

SpecAuth == InitAuth /\ [][NextAuth]_vars

(* --------------------------- token requests --------------------------- *)
\* a user an administrator has deactivated in the database
InactiveUser ==
    [email |-> "left@example.com", first_name |-> "Former", last_name |-> "User",
     hashed_password |-> get_password_hash("password", "salt1"),
     is_active |-> FALSE, is_admin |-> FALSE]

TokenEmails == {"test@example.com", "left@example.com", "invalid@example.com"}

\* the instants a token can have been issued at
IssueTimes == (0 .. MaxTime) \cup
              {t + ACCESS_TOKEN_EXPIRE_MINUTES + 1 : t \in 0 .. MaxTime}

\* what a caller can send: nothing, a non-token, a token signed with a
\* guessed key or naming no algorithm, and tokens the login route issued
Authorizations ==
    {NoAuthorization, Bearer(MalformedToken)}
    \cup {Bearer(jwt_encode([exp |-> ACCESS_TOKEN_EXPIRE_MINUTES + MaxTime,
                             sub |-> ObjectIdHex(1)], key, alg)) :
             key \in {"guess"}, alg \in {JWT_ALGORITHM, "none"}}
    \cup {Bearer(create_access_token(u, t)) : u \in 1 .. 4, t \in IssueTimes}

InitTokens ==
    /\ users = InsertOne(RegisteredUsers, 3, InactiveUser)
    /\ organisations = <<>>
    /\ clients = <<>>
    /\ projects = <<>>
    /\ documents = <<>>
    /\ meetings = <<>>
    /\ issued = [users |-> 3, organisations |-> 0, clients |-> 0,
                 projects |-> 0, documents |-> 0, meetings |-> 0]
    /\ now = 0
    /\ req = Request("none", NoId, NoData)
    /\ resp = Returned(NoId, NoData)
    /\ inflight = NoCalls
    /\ NoBrowser

NextTokens ==
    \/ Tick
    \/ TickLifetime
    \/ \E e \in TokenEmails, p \in Passwords : LoginAccessToken(e, p)
    \/ \E a \in Authorizations : ReadUsersMe(a)

SpecTokens == InitTokens /\ [][NextTokens]_vars

(* -------------------------- protected routes -------------------------- *)
TestDocument ==
    NewDocument([title |-> "Contract", document_type |-> "contract",
                 client_id |-> 1, project_id |-> 1, status |-> "draft",
                 requires_signature |-> TRUE, content |-> "Initial content"],
                1, 0)

TestMeeting ==
    [title |-> "Kick-off", client_id |-> 1, project_id |-> 1, start_time |-> 0,
     created_at |-> 0, updated_at |-> 0]

\* what the test suite stores before a test: an organisation, its client,
\* the client's project, and a document and a meeting of that project
FixtureStored ==
    /\ organisations = InsertOne(<<>>, 1, TestOrganisation)
    /\ clients = InsertOne(<<>>, 1, TestClient)
    /\ projects = InsertOne(<<>>, 1, TestProject)
    /\ documents = InsertOne(<<>>, 1, TestDocument)
    /\ meetings = InsertOne(<<>>, 1, TestMeeting)

InitProtected ==
    /\ users = InsertOne(RegisteredUsers, 3, InactiveUser)
    /\ FixtureStored
    /\ issued = [users |-> 3, organisations |-> 1, clients |-> 1,
                 projects |-> 1, documents |-> 1, meetings |-> 1]
    /\ now = 0
    /\ req = Request("none", NoId, NoData)
    /\ resp = Returned(NoId, NoData)
    /\ inflight = NoCalls
    /\ NoBrowser

\* no header, a non-token, a guessed key, no algorithm, and the token the
\* test user got at login
ProtectedAuthorizations ==
    {a \in Authorizations :
        a.token.signature
           = jwt_sign(a.token.header, a.token.payload, JWT_SECRET)
        => /\ a.token.payload.sub = ObjectIdHex(1)
           /\ a.token.payload.exp = ACCESS_TOKEN_EXPIRE_MINUTES}

\* one request to each route that depends on get_current_active_user; a
\* test sends its writing request while the fixtures are as stored
ClientRoutes(a) ==
    \/ Protected(a, FixtureStored
                    /\ CreateClient([name |-> "Bob", email |-> "bob@example.com",
                                     phone |-> None, organisation_id |-> 1,
                                     notes |-> None, initial_query |-> None]))
    \/ Protected(a, ReadMany("read_clients", clients, <<>>))
    \/ Protected(a, \E c \in {1, 3} : ReadClient(c))
    \/ Protected(a, FixtureStored
                    /\ UpdateClient(1, [notes |-> "Updated notes"]))
    \/ Protected(a, FixtureStored /\ DeleteClient(1))

OrganisationRoutes(a) ==
    \/ Protected(a, FixtureStored /\ CreateOrganisation([name |-> "Acme"]))
    \/ Protected(a, ReadMany("read_organisations", organisations, <<>>))
    \/ Protected(a, ReadOrganisation(1))
    \/ Protected(a, FixtureStored
                    /\ UpdateOrganisation(1, [notes |-> "Updated notes"]))
    \/ Protected(a, FixtureStored /\ DeleteOrganisation(1))

ProjectRoutes(a) ==
    \/ Protected(a, FixtureStored
                    /\ CreateProject([title |-> "Survey", client_id |-> 1,
                                      organisation_id |-> 1,
                                      status |-> "assessment"]))
    \/ Protected(a, ReadMany("read_projects", projects, [client_id |-> 1]))
    \/ Protected(a, ReadProject(1))
    \/ Protected(a, FixtureStored
                    /\ UpdateProject(1, [status |-> "planning"]))
    \/ Protected(a, FixtureStored /\ DeleteProject(1))

DocumentRoutes(a) ==
    LET current_user == get_current_active_user(a).user
    IN \/ Protected(a, FixtureStored
                       /\ CreateDocument(current_user,
                              [title |-> "Quote", document_type |-> "quote",
                               client_id |-> 1, project_id |-> 1,
                               status |-> "draft", requires_signature |-> FALSE,
                               content |-> "Initial content"]))
       \/ Protected(a, ReadMany("read_documents", documents,
                                [project_id |-> 1]))
       \/ Protected(a, ReadDocument(1))
       \/ Protected(a, FixtureStored
                       /\ UpdateDocument(current_user, 1,
                              [new_version_content |-> "Second draft"]))
       \/ Protected(a, FixtureStored /\ DeleteDocument(1))
       \/ Protected(a, FixtureStored /\ SignDocument(current_user, 1))

MeetingRoutes(a) ==
    \/ Protected(a, FixtureStored
                    /\ CreateMeeting([title |-> "Review", client_id |-> 1,
                                      project_id |-> 1, start_time |-> 0]))
    \/ Protected(a, ReadMany("read_meetings", meetings, [client_id |-> 1]))
    \/ Protected(a, ReadMeeting(1))
    \/ Protected(a, FixtureStored /\ UpdateMeeting(1, [title |-> "Review"]))
    \/ Protected(a, FixtureStored /\ DeleteMeeting(1))
    \/ Protected(a, FixtureStored /\ AddTranscript(1, "Transcript text"))
    \/ Protected(a, FixtureStored
                    /\ AddKeyPoints(1, <<[content |-> "Agreed scope"]>>))
    \/ Protected(a, FixtureStored
                    /\ AddRecording(1, "https://example.com/recording"))

ProtectedRoutes(a) ==
    \/ ReadUsersMe(a)
    \/ ClientRoutes(a)
    \/ OrganisationRoutes(a)
    \/ ProjectRoutes(a)
    \/ DocumentRoutes(a)
    \/ MeetingRoutes(a)

NextProtected ==
    \/ TickLifetime
    \/ \E a \in ProtectedAuthorizations : ProtectedRoutes(a)

SpecProtected == InitProtected /\ [][NextProtected]_vars

(* ----------------- requests that set or drop a client ----------------- *)
LifecycleClientIds == 1 .. MaxClients

NextClientLifecycle ==
    \/ issued.clients < MaxClients
       /\ CreateClient([name |-> "Bob", email |-> "bob@example.com",
                        phone |-> None, organisation_id |-> 1,
                        notes |-> None, initial_query |-> None])
    \/ \E c \in LifecycleClientIds : DeleteClient(c)
    \/ \E c \in LifecycleClientIds :
          issued.projects < MaxProjects
          /\ CreateProject([title |-> "Survey", client_id |-> c,
                            organisation_id |-> 1, status |-> "assessment"])
    \/ \E p \in 1 .. MaxProjects, c \in LifecycleClientIds :
          UpdateProject(p, [client_id |-> c])
    \/ \E p \in 1 .. MaxProjects : DeleteProject(p)
    \/ \E c \in LifecycleClientIds :
          issued.meetings < MaxMeetings
          /\ CreateMeeting([title |-> "Kick-off", client_id |-> c,
                            project_id |-> NoId, start_time |-> 0])
    \/ \E m \in 1 .. MaxMeetings, c \in LifecycleClientIds :
          UpdateMeeting(m, [client_id |-> c])
    \/ \E m \in 1 .. MaxMeetings : DeleteMeeting(m)
    \/ \E c \in LifecycleClientIds :
          issued.documents < MaxDocs
          /\ CreateDocument(1, [title |-> "Contract",
                                document_type |-> "contract", client_id |-> c,
                                project_id |-> NoId, status |-> "draft",
                                requires_signature |-> FALSE,
                                content |-> "Initial content"])
    \/ \E d \in 1 .. MaxDocs, c \in LifecycleClientIds :
          UpdateDocument(1, d, [client_id |-> c])
    \/ \E d \in 1 .. MaxDocs : DeleteDocument(d)

SpecClientLifecycle == InitProjects /\ [][NextClientLifecycle]_vars

(* ------------- project deletion among interleaved requests ------------ *)
\* the calls of handler op that are suspended at an await
Suspended(op) == {r \in Slots : inflight[r].op = op}

RaceDocumentBodies ==
    [title : {"Contract"}, document_type : {"contract"}, client_id : {1},
     project_id : {NoId, 1}, status : {"draft"}, requires_signature : {FALSE},
     content : {"Initial content"}]

RaceMeetingBodies ==
    [title : {"Kick-off"}, client_id : {1}, project_id : {NoId, 1},
     start_time : {0}]

\* an organisation, its client and the client's project are stored
InitProjectRace ==
    /\ users = InsertOne(<<>>, 1, TestUser)
    /\ organisations = InsertOne(<<>>, 1, TestOrganisation)
    /\ clients = InsertOne(<<>>, 1, TestClient)
    /\ projects = InsertOne(<<>>, 1, TestProject)
    /\ documents = <<>>
    /\ meetings = <<>>
    /\ issued = [users |-> 1, organisations |-> 1, clients |-> 1,
                 projects |-> 1, documents |-> 0, meetings |-> 0]
    /\ now = 0
    /\ req = Request("none", NoId, NoData)
    /\ resp = Returned(NoId, NoData)
    /\ inflight = NoCalls
    /\ NoBrowser

NextProjectRace ==
    \E r \in Slots :
       \/ DeleteProject_FindProject(r, 1)
       \/ DeleteProject_CountDocuments(r)
       \/ DeleteProject_CountMeetings(r)
       \/ DeleteProject_DeleteOne(r)
       \/ /\ issued.documents + Cardinality(Suspended("create_document"))
                < MaxDocs
          /\ \E b \in RaceDocumentBodies : CreateDocument_FindClient(r, 1, b)
       \/ CreateDocument_FindProject(r)
       \/ CreateDocument_InsertOne(r)
       \/ /\ issued.meetings + Cardinality(Suspended("create_meeting"))
                < MaxMeetings
          /\ \E b \in RaceMeetingBodies : CreateMeeting_FindClient(r, b)
       \/ CreateMeeting_FindProject(r)
       \/ CreateMeeting_InsertOne(r)
       \/ \E d \in 1 .. MaxDocs :
             UpdateDocument_FindDocument(r, 1, d, [project_id |-> 1])
       \/ UpdateDocument_FindProject(r)
       \/ UpdateDocument_Set(r)
       \/ UpdateDocument_FindUpdated(r)
       \/ \E m \in 1 .. MaxMeetings :
             UpdateMeeting_FindMeeting(r, m, [project_id |-> 1])
       \/ UpdateMeeting_FindProject(r)
       \/ UpdateMeeting_Set(r)
       \/ UpdateMeeting_FindUpdated(r)

SpecProjectRace == InitProjectRace /\ [][NextProjectRace]_vars

(* ------------- document requests interleaved with each other ---------- *)
DocumentUpdateFields ==
    {"title", "document_type", "client_id", "project_id", "status",
     "requires_signature", "new_version_content", "new_version_notes"}

\* a DocumentUpdate that keeps the keys it does not declare
DocumentUpdate_AllowExtra(json) == json

\* DocumentUpdate parsed from the JSON object of a PUT: the keys the schema
\* does not declare are ignored
DocumentUpdate(json) == Restrict(json, DOMAIN json \cap DocumentUpdateFields)

RaceUpdateJson ==
    {[new_version_content |-> "Second draft"], [status |-> "final"],
     [signed |-> FALSE]}

\* a user, a client and a project are stored, and no document yet; the
\* requests are about the one document that is then created
InitDocRace ==
    /\ users = RegisteredUsers
    /\ organisations = InsertOne(<<>>, 1, TestOrganisation)
    /\ clients = InsertOne(<<>>, 1, TestClient)
    /\ projects = InsertOne(<<>>, 1, TestProject)
    /\ documents = <<>>
    /\ meetings = <<>>
    /\ issued = [users |-> 2, organisations |-> 1, clients |-> 1,
                 projects |-> 1, documents |-> 0, meetings |-> 0]
    /\ now = 0
    /\ req = Request("none", NoId, NoData)
    /\ resp = Returned(NoId, NoData)
    /\ inflight = NoCalls
    /\ NoBrowser

NextDocRace ==
    \E r \in Slots :
       \/ /\ issued.documents = 0
          /\ Suspended("create_document") = {}
          /\ \E b \in StoredDocumentBodies : CreateDocument_FindClient(r, 1, b)
       \/ CreateDocument_FindProject(r)
       \/ CreateDocument_InsertOne(r)
       \/ \E d \in 1 .. MaxDocs, j \in RaceUpdateJson :
             /\ d \in DOMAIN documents
                   => Len(documents[d].versions)
                         + Cardinality(Suspended("update_document"))
                      < MaxVersions
             /\ UpdateDocument_FindDocument(r, 1, d, DocumentUpdate(j))
       \/ UpdateDocument_Push(r)
       \/ UpdateDocument_Set(r)
       \/ UpdateDocument_FindUpdated(r)
       \/ \E d \in 1 .. MaxDocs : SignDocument_FindDocument(r, 2, d)
       \/ SignDocument_Set(r)
       \/ SignDocument_FindUpdated(r)

SpecDocRace == InitDocRace /\ [][NextDocRace]_vars

(* ------------- client requests interleaved with each other ------------ *)
RaceClientBodies ==
    [name : {"Bob"}, email : Emails, phone : {None},
     organisation_id : {NoId}, notes : {None}, initial_query : {None}]

NextClientRace ==
    \E r \in Slots :
       \/ /\ issued.clients + Cardinality(Suspended("create_client"))
                < MaxClients
          /\ \E b \in RaceClientBodies : CreateClient_FindEmail(r, b)
       \/ CreateClient_InsertOne(r)
       \/ \E c \in ClientIds, e \in Emails :
             UpdateClient_FindClient(r, c, [email |-> e])
       \/ UpdateClient_Set(r)
       \/ UpdateClient_FindUpdated(r)

SpecClientRace == Init /\ [][NextClientRace]_vars

(* ------------- key points added by interleaved requests --------------- *)
KeyPointLists ==
    {<<[content |-> "Budget agreed"], [content |-> "Survey in May"]>>,
     <<[content |-> "Survey in May"]>>}

\* key_points of a stored meeting; a meeting is created without the field
KeyPointsOf(meeting) ==
    IF "key_points" \in DOMAIN meeting THEN meeting.key_points ELSE <<>>

\* the fixtures and one meeting, which has no key points yet
InitMeetingRace ==
    /\ users = InsertOne(<<>>, 1, TestUser)
    /\ organisations = InsertOne(<<>>, 1, TestOrganisation)
    /\ clients = InsertOne(<<>>, 1, TestClient)
    /\ projects = InsertOne(<<>>, 1, TestProject)
    /\ documents = <<>>
    /\ meetings = InsertOne(<<>>, 1, TestMeeting)
    /\ issued = [users |-> 1, organisations |-> 1, clients |-> 1,
                 projects |-> 1, documents |-> 0, meetings |-> 1]
    /\ now = 0
    /\ req = Request("none", NoId, NoData)
    /\ resp = Returned(NoId, NoData)
    /\ inflight = NoCalls
    /\ NoBrowser

NextMeetingRace ==
    \/ Tick
    \/ \E r \in Slots :
          \/ \E m \in {1, 2}, k \in KeyPointLists :
                /\ m \in DOMAIN meetings
                      => Len(KeyPointsOf(meetings[m])) + Len(k)
                            + 2 * Cardinality(Suspended("add_key_points"))
                         <= MaxKeyPoints
                /\ AddKeyPoints_FindMeeting(r, m, k)
          \/ AddKeyPoints_Push(r)
          \/ AddKeyPoints_FindUpdated(r)

SpecMeetingRace == InitMeetingRace /\ [][NextMeetingRace]_vars

(* ------------- signing interleaved with signing and deleting ---------- *)
\* two users, the fixtures, and a stored document that requires a signature
InitSignRace ==
    /\ users = RegisteredUsers
    /\ organisations = InsertOne(<<>>, 1, TestOrganisation)
    /\ clients = InsertOne(<<>>, 1, TestClient)
    /\ projects = InsertOne(<<>>, 1, TestProject)
    /\ documents = InsertOne(<<>>, 1, TestDocument)
    /\ meetings = <<>>
    /\ issued = [users |-> 2, organisations |-> 1, clients |-> 1,
                 projects |-> 1, documents |-> 1, meetings |-> 0]
    /\ now = 0
    /\ req = Request("none", NoId, NoData)
    /\ resp = Returned(NoId, NoData)
    /\ inflight = NoCalls
    /\ NoBrowser

NextSignRace ==
    \/ Tick
    \/ \E r \in Slots :
          \/ \E u \in DOMAIN users : SignDocument_FindDocument(r, u, 1)
          \/ SignDocument_Set(r)
          \/ SignDocument_FindUpdated(r)
          \/ DeleteDocument_FindDocument(r, 1)
          \/ DeleteDocument_DeleteOne(r)

SpecSignRace == InitSignRace /\ [][NextSignRace]_vars

(* ---------------- API modules answered with any status ----------------- *)
AccessTokens == {"token-1", "token-2"}

ResponseStatuses ==
    {NoResponse, HTTP_200_OK, HTTP_401_UNAUTHORIZED, HTTP_403_FORBIDDEN,
     HTTP_404_NOT_FOUND, HTTP_500_INTERNAL_SERVER_ERROR}

Paths == {"/", "/clients", "/organisations", "/projects", "/documents",
          "/meetings", "/login"}

InitApiClient ==
    /\ users = <<>>
    /\ organisations = <<>>
    /\ clients = <<>>
    /\ projects = <<>>
    /\ documents = <<>>
    /\ meetings = <<>>
    /\ issued = [users |-> 0, organisations |-> 0, clients |-> 0,
                 projects |-> 0, documents |-> 0, meetings |-> 0]
    /\ now = 0
    /\ req = Request("none", NoId, NoData)
    /\ resp = Returned(NoId, NoData)
    /\ inflight = NoCalls
    /\ localStorage = [token |-> None]
    /\ location = "/login"
    /\ \E b \in Builds :
          page = [name |-> "Layout", build |-> b, userName |-> "",
                  authError |-> FALSE]

NextApiClient ==
    \/ \E t \in AccessTokens : LoginPage(t)
    \/ \E p \in Paths : Navigate(p)
    \/ \E s \in ResponseStatuses : FetchUserInfo(s)
    \/ \E m \in ApiModules, s \in ResponseStatuses : ApiCall(m, s)

SpecApiClient == InitApiClient /\ [][NextApiClient]_vars

(* --------------------- a client's page being loaded -------------------- *)
ClientResults == {[organisation_id |-> NoId], [organisation_id |-> 1]}

TabResults == {<<>>, <<1>>}

\* every module with the shared instance where it has one, or with its own
ClientDetailBuilds ==
    {b \in Builds :
        \A m \in ApiModules \ {"projects"} : b[m] = b["clients"]}

ClientDetailStatuses ==
    {NoResponse, HTTP_200_OK, HTTP_401_UNAUTHORIZED, HTTP_404_NOT_FOUND}

InitClientDetail ==
    /\ users = <<>>
    /\ organisations = <<>>
    /\ clients = <<>>
    /\ projects = <<>>
    /\ documents = <<>>
    /\ meetings = <<>>
    /\ issued = [users |-> 0, organisations |-> 0, clients |-> 0,
                 projects |-> 0, documents |-> 0, meetings |-> 0]
    /\ now = 0
    /\ req = Request("none", NoId, NoData)
    /\ resp = Returned(NoId, NoData)
    /\ inflight = NoCalls
    /\ localStorage = [token |-> "token-1"]
    /\ location = "/clients/1"
    /\ \E b \in ClientDetailBuilds : page = ClientDetail(b)

SettleClientDetail ==
    \/ \E s \in ClientDetailStatuses, r \in ClientResults :
          FetchClientData_GetClient(s, r)
    \/ \E s \in ClientDetailStatuses : FetchClientData_GetOrganisation(s)
    \/ \E f \in Fetches, s \in ClientDetailStatuses, r \in TabResults :
          FetchTab_Settled(f, s, r)

NextClientDetail ==
    \/ SettleClientDetail
    \/ \E tab \in TabType : HandleTabChange(tab)

SpecClientDetail == InitClientDetail /\ [][NextClientDetail]_vars

\* every request is answered or fails in the end
FairClientDetail == SpecClientDetail /\ WF_vars(SettleClientDetail)

(* ---------------------- deletes from a list page ----------------------- *)
MaxListed == 3

ListResults ==
    {<<>>} \cup {[i \in 1 .. n |-> i] : n \in 1 .. MaxListed}

InitListPage ==
    /\ users = <<>>
    /\ organisations = <<>>
    /\ clients = <<>>
    /\ projects = <<>>
    /\ documents = <<>>
    /\ meetings = <<>>
    /\ issued = [users |-> 0, organisations |-> 0, clients |-> 0,
                 projects |-> 0, documents |-> 0, meetings |-> 0]
    /\ now = 0
    /\ req = Request("none", NoId, NoData)
    /\ resp = Returned(NoId, NoData)
    /\ inflight = NoCalls
    /\ localStorage = [token |-> "token-1"]
    /\ \E name \in DOMAIN ListPages, b \in ClientDetailBuilds :
          /\ page = ListPage(name, b)
          /\ location = "/" \o ListPages[name]

NextListPage ==
    \/ \E s \in ClientDetailStatuses, r \in ListResults :
          FetchList_Settled(s, r)
    \/ \E id \in 1 .. MaxListed : HandleDelete(id)
    \/ \E d \in Deletes, s \in ClientDetailStatuses :
          HandleDelete_Settled(d, s)

SpecListPage == InitListPage /\ [][NextListPage]_vars

(* ------------------ logins and auth checks interleaved ----------------- *)
AuthRoutes == {"/login", "/", "/clients"}

AuthStatuses ==
    {NoResponse, HTTP_200_OK, HTTP_401_UNAUTHORIZED,
     HTTP_500_INTERNAL_SERVER_ERROR}

\* the provider mounted on some route, with or without a token left in
\* localStorage by an earlier visit
InitAuthProvider ==
    /\ users = <<>>
    /\ organisations = <<>>
    /\ clients = <<>>
    /\ projects = <<>>
    /\ documents = <<>>
    /\ meetings = <<>>
    /\ issued = [users |-> 0, organisations |-> 0, clients |-> 0,
                 projects |-> 0, documents |-> 0, meetings |-> 0]
    /\ now = 0
    /\ req = Request("none", NoId, NoData)
    /\ resp = Returned(NoId, NoData)
    /\ inflight = NoCalls
    /\ \E token \in {None} \cup AccessTokens, pathname \in AuthRoutes :
          LET after == CheckAuth([token |-> token], AuthProvider, pathname)
          IN  /\ localStorage = [token |-> token]
              /\ page = after.page
              /\ location = after.location

NextAuthProvider ==
    \/ \E c \in Checks, s \in AuthStatuses :
          \E p \in {c.pathname, location} : CheckAuth_Settled(c, s, p)
    \/ Login
    \/ \E s \in AuthStatuses, t \in AccessTokens : Login_Token(s, t)
    \/ \E s \in AuthStatuses : Login_Me(s)
    \/ Logout
    \/ \E p \in AuthRoutes : Route(p)

SpecAuthProvider == InitAuthProvider /\ [][NextAuthProvider]_vars

(* ---------------------------------------------------------------------- *)
(* C1: create_client with the email of a stored client fails with 400     *)
(* "A client with this email already exists." and leaves the clients      *)
(* collection exactly as it was.                                          *)
(* ---------------------------------------------------------------------- *)
C1_DuplicateEmailConflict ==
    [][(/\ req'.op = "create_client"
        /\ CreateClient(req'.body)
        /\ \E i \in DOMAIN clients : clients[i].email = req'.body.email)
       => (/\ resp'.status = 400
           /\ resp'.detail = "A client with this email already exists."
           /\ clients' = clients)]_vars

C1_Witness ==
    /\ req.op = "create_client"
    /\ resp.status = 400
    /\ \E i \in DOMAIN clients : clients[i].email = req.body.email

(* ---------------------------------------------------------------------- *)
(* C2: create_client with an organisation_id that names no stored         *)
(* organisation fails with 404 and stores no client.                      *)
(* ---------------------------------------------------------------------- *)
C2_UnknownOrganisationNotFound ==
    [][(/\ req'.op = "create_client"
        /\ CreateClient(req'.body)
        /\ req'.body.organisation_id # NoId
        /\ ~Stored(organisations, req'.body.organisation_id))
       => (/\ resp'.status = 404
           /\ clients' = clients)]_vars

(* ---------------------------------------------------------------------- *)
(* C3: delete_organisation on a stored organisation answers 400 with the  *)
(* number of referencing clients and keeps the organisation exactly when  *)
(* some stored client has that organisation_id; otherwise it answers 200  *)
(* and the organisation is no longer stored.                              *)
(* ---------------------------------------------------------------------- *)
C3_Referencing(o) == {c \in DOMAIN clients : clients[c].organisation_id = o}

C3_DeleteOrganisationGuard ==
    [][(/\ req'.op = "delete_organisation"
        /\ DeleteOrganisation(req'.id)
        /\ req'.id \in DOMAIN organisations)
       => IF C3_Referencing(req'.id) # {}
          THEN /\ resp'.status = 400
               /\ resp'.detail = "Cannot delete organisation: "
                      \o DecimalStr(Cardinality(C3_Referencing(req'.id)))
                      \o " clients are associated with it"
               /\ organisations' = organisations
          ELSE /\ resp'.status = 200
               /\ req'.id \notin DOMAIN organisations'
               /\ \A o \in DOMAIN organisations \ {req'.id} :
                      o \in DOMAIN organisations'
                      /\ organisations'[o] = organisations[o]]_vars

C3_WitnessBlocked ==
    /\ req.op = "delete_organisation"
    /\ resp.status = 400
    /\ req.id \in DOMAIN organisations
    /\ Cardinality(C3_Referencing(req.id)) = 2

(* ---------------------------------------------------------------------- *)
(* C9: update_client is a partial update: on a stored client it sets      *)
(* exactly the supplied fields to the supplied values and updated_at to   *)
(* the current time; every field not supplied, and created_at, keeps its  *)
(* previous value, and no other client changes.                           *)
(* ---------------------------------------------------------------------- *)
C9_PartialUpdate ==
    [][(/\ req'.op = "update_client"
        /\ UpdateClient(req'.id, req'.body)
        /\ req'.id \in DOMAIN clients)
       => LET old == clients[req'.id]
              new == clients'[req'.id]
              supplied == DOMAIN req'.body
          IN /\ resp'.status = 200
             /\ DOMAIN clients' = DOMAIN clients
             /\ DOMAIN new = DOMAIN old
             /\ \A f \in supplied : new[f] = req'.body[f]
             /\ new.updated_at = now
             /\ \A f \in (ClientFields \ supplied) \cup {"created_at"} :
                    new[f] = old[f]
             /\ \A c \in DOMAIN clients \ {req'.id} : clients'[c] = clients[c]
             /\ resp'.data = new]_vars

C9_WitnessOnlyNotes ==
    /\ req.op = "update_client"
    /\ DOMAIN req.body = {"notes"}
    /\ resp.status = 200
    /\ req.id \in DOMAIN clients
    /\ clients[req.id].notes = "Updated notes"
    /\ clients[req.id].name = "Test Client"
    /\ clients[req.id].email = "client@example.com"
    /\ clients[req.id].phone = "123-456-7890"
    /\ clients[req.id].organisation_id = 1
    /\ clients[req.id].initial_query = "Initial test query"
    /\ clients[req.id].updated_at > clients[req.id].created_at

(* ---------------------------------------------------------------------- *)
(* C4: delete_project on a stored project answers 400 and keeps the       *)
(* project exactly when some stored document or some stored meeting has   *)
(* that project_id; otherwise it answers 200 and the project is no longer *)
(* stored.                                                                *)
(* ---------------------------------------------------------------------- *)
C4_Dependents(p) ==
    {<<"document", d>> : d \in {d \in DOMAIN documents :
                                    documents[d].project_id = p}}
    \cup {<<"meeting", m>> : m \in {m \in DOMAIN meetings :
                                    meetings[m].project_id = p}}

C4_DeleteProjectGuard ==
    [][(/\ req'.op = "delete_project"
        /\ DeleteProject(req'.id)
        /\ req'.id \in DOMAIN projects)
       => IF C4_Dependents(req'.id) # {}
          THEN /\ resp'.status = 400
               /\ projects' = projects
          ELSE /\ resp'.status = 200
               /\ req'.id \notin DOMAIN projects'
               /\ \A p \in DOMAIN projects \ {req'.id} :
                      p \in DOMAIN projects' /\ projects'[p] = projects[p]]_vars

C4_WitnessMeetingOnly ==
    /\ req.op = "delete_project"
    /\ resp.status = 400
    /\ req.id \in DOMAIN projects
    /\ \E m \in DOMAIN meetings : meetings[m].project_id = req.id
    /\ \A d \in DOMAIN documents : documents[d].project_id # req.id

(* ---------------------------------------------------------------------- *)
(* C7: delete_document on a stored document whose signed flag is true     *)
(* answers 400 and the document stays stored, as it was.  The witness is  *)
(* the end of the sequence create organisation, create client, create     *)
(* project, create document requiring signature, sign, delete.            *)
(* ---------------------------------------------------------------------- *)
C7_SignedNotDeleted ==
    [][(/\ req'.op = "delete_document"
        /\ DeleteDocument(req'.id)
        /\ req'.id \in DOMAIN documents
        /\ documents[req'.id].signed)
       => (/\ resp'.status = 400
           /\ resp'.detail = "Cannot delete a signed document"
           /\ documents' = documents)]_vars

C7_WitnessEndToEnd ==
    /\ req.op = "delete_document"
    /\ resp.status = 400
    /\ req.id \in DOMAIN documents
    /\ LET doc == documents[req.id]
       IN /\ doc.signed
          /\ doc.requires_signature
          /\ doc.project_id \in DOMAIN projects
          /\ doc.client_id \in DOMAIN clients
          /\ projects[doc.project_id].client_id = doc.client_id
          /\ clients[doc.client_id].name = "Bob"
          /\ clients[doc.client_id].organisation_id \in DOMAIN organisations
          /\ organisations[clients[doc.client_id].organisation_id].name = "Acme"

(* ---------------------------------------------------------------------- *)
(* C5: once a document is signed, every later sign_document request on it *)
(* answers 400 with the detail "This document is already signed" and      *)
(* leaves signed, signed_by and signed_at as the first signing set them.  *)
(* ---------------------------------------------------------------------- *)
C5_SignOnlyOnce ==
    [][(/\ req'.op = "sign_document"
        /\ SignDocument(req'.user, req'.id)
        /\ req'.id \in DOMAIN documents
        /\ documents[req'.id].signed)
       => (/\ resp'.status = 400
           /\ resp'.detail = "This document is already signed"
           /\ req'.id \in DOMAIN documents'
           /\ documents'[req'.id].signed
           /\ documents'[req'.id].signed_by = documents[req'.id].signed_by
           /\ documents'[req'.id].signed_at = documents[req'.id].signed_at)]_vars

(* ---------------------------------------------------------------------- *)
(* C6: sign_document on a stored document whose requires_signature is     *)
(* false answers 400 and leaves the document unchanged, so an unsigned    *)
(* one stays unsigned with signed_by and signed_at unset; and a           *)
(* sign_document request sets signed to true only on a document that had  *)
(* requires_signature true and signed false beforehand.                   *)
(* ---------------------------------------------------------------------- *)
C6_SignRequiresSignature ==
    [][(/\ req'.op = "sign_document"
        /\ SignDocument(req'.user, req'.id)
        /\ req'.id \in DOMAIN documents)
       => LET old == documents[req'.id]
          IN /\ ~old.requires_signature
                => /\ resp'.status = 400
                   /\ documents' = documents
                   /\ ~old.signed
                      => /\ ~documents'[req'.id].signed
                         /\ {"signed_by", "signed_at"}
                               \cap DOMAIN documents'[req'.id] = {}
             /\ (resp'.status = 200 \/ documents' # documents)
                => /\ old.requires_signature
                   /\ ~old.signed
                   /\ documents'[req'.id].signed]_vars

C6_WitnessRefused ==
    /\ req.op = "sign_document"
    /\ resp.status = 400
    /\ resp.detail = "This document does not require a signature"
    /\ req.id \in DOMAIN documents
    /\ ~documents[req.id].requires_signature
    /\ ~documents[req.id].signed
    /\ "signed_by" \notin DOMAIN documents[req.id]

(* ---------------------------------------------------------------------- *)
(* C8: an update_document request on a stored document that carries new   *)
(* version content and is answered 200 increases current_version by       *)
(* exactly 1 and appends exactly one entry to versions, last, whose       *)
(* version_number is the new current_version; the earlier entries are the *)
(* same before and after.                                                 *)
(* ---------------------------------------------------------------------- *)
C8_AppendVersion ==
    [][(/\ req'.op = "update_document"
        /\ UpdateDocument(req'.user, req'.id, req'.body)
        /\ req'.id \in DOMAIN documents
        /\ resp'.status = 200
        /\ "new_version_content" \in DOMAIN req'.body
        /\ req'.body.new_version_content # "")
       => LET old == documents[req'.id]
              new == documents'[req'.id]
          IN /\ new.current_version = old.current_version + 1
             /\ Len(new.versions) = Len(old.versions) + 1
             /\ new.versions[Len(new.versions)].version_number
                    = new.current_version
             /\ new.versions[Len(new.versions)].content
                    = req'.body.new_version_content
             /\ SubSeq(new.versions, 1, Len(old.versions)) = old.versions]_vars

C8_WitnessThirdVersion ==
    /\ req.op = "update_document"
    /\ resp.status = 200
    /\ "new_version_content" \in DOMAIN req.body
    /\ req.id \in DOMAIN documents
    /\ documents[req.id].current_version = 3
    /\ Len(documents[req.id].versions) = 3
    /\ documents[req.id].versions[3].content = req.body.new_version_content
    /\ documents[req.id].versions[3].version_number = 3

(* ---------------------------------------------------------------------- *)
(* C10: every login attempt that fails, whether no user has the email or  *)
(* a user has it and the password does not verify, gets one and the same  *)
(* response: status 401, detail "Incorrect email or password", the        *)
(* WWW-Authenticate header, and no data.                                  *)
(* ---------------------------------------------------------------------- *)
C10_UniformLoginFailure ==
    [][(/\ req'.op = "login"
        /\ LoginAccessToken(req'.body.username, req'.body.password)
        /\ \/ \A u \in DOMAIN users : users[u].email # req'.body.username
           \/ \E u \in DOMAIN users :
                 /\ users[u].email = req'.body.username
                 /\ ~verify_password(req'.body.password,
                                     users[u].hashed_password))
       => resp' = [status |-> 401, detail |-> "Incorrect email or password",
                   id |-> NoId, data |-> NoData,
                   headers |-> <<"WWW-Authenticate", "Bearer">>]]_vars

C10_WitnessWrongPassword ==
    /\ req.op = "login"
    /\ resp.status = 401
    /\ \E u \in DOMAIN users :
          /\ users[u].email = req.body.username
          /\ ~verify_password(req.body.password, users[u].hashed_password)
    /\ \E u \in DOMAIN users : users[u].email # req.body.username

(* ---------------------------------------------------------------------- *)
(* C11: the token a successful login returns for a stored active user     *)
(* names that user as its subject, and GET /auth/me with a token the      *)
(* login route issued for a stored active user, not yet expired, answers  *)
(* 200 with that same user.                                               *)
(* ---------------------------------------------------------------------- *)
C11_TokenRoundTrip ==
    [][/\ (/\ req'.op = "login"
           /\ LoginAccessToken(req'.body.username, req'.body.password)
           /\ resp'.status = 200)
          => \E u \in DOMAIN users :
                /\ users[u].email = req'.body.username
                /\ resp'.data.access_token.payload.sub = ObjectIdHex(u)
                /\ resp'.data.access_token.payload.exp
                       = now + ACCESS_TOKEN_EXPIRE_MINUTES
       /\ (/\ req'.op = "read_users_me"
           /\ ReadUsersMe(req'.authorization)
           /\ \E u \in DOMAIN users, t \in IssueTimes :
                 /\ users[u].is_active
                 /\ req'.authorization = Bearer(create_access_token(u, t))
                 /\ now <= t + ACCESS_TOKEN_EXPIRE_MINUTES)
          => \E u \in DOMAIN users :
                /\ req'.authorization.token.payload.sub = ObjectIdHex(u)
                /\ resp'.status = 200
                /\ resp'.id = u
                /\ resp'.data.email = users[u].email
                /\ resp'.data.id = ObjectIdHex(u)]_vars

C11_WitnessLastMinute ==
    /\ req.op = "read_users_me"
    /\ resp.status = 200
    /\ resp.id = 2
    /\ resp.data.email = "newuser@example.com"
    /\ req.authorization.token.payload.exp = now
    /\ now > 0

(* ---------------------------------------------------------------------- *)
(* C12: a request to any route under clients, organisations, projects,    *)
(* documents or meetings, or to GET /auth/me, that carries no bearer      *)
(* token, a malformed one, one signed with another key or naming another  *)
(* algorithm, or an expired one, is answered 401 or 403 and changes no    *)
(* stored entity.                                                         *)
(* ---------------------------------------------------------------------- *)
C12_BadAuthorizations ==
    {a \in ProtectedAuthorizations :
        \/ a.scheme # "Bearer"
        \/ a.token = MalformedToken
        \/ a.token.header # JWT_ALGORITHM
        \/ a.token.signature
              # jwt_sign(a.token.header, a.token.payload, JWT_SECRET)
        \/ a.token.payload.exp < now}

C12_RejectsBadToken ==
    [][(\E a \in C12_BadAuthorizations : ProtectedRoutes(a))
       => (/\ resp'.status \in {401, 403}
           /\ UNCHANGED <<users, organisations, clients, projects,
                          documents, meetings, issued>>)]_vars

C12_WitnessExpired ==
    /\ req.op = "protected"
    /\ resp.status = 403
    /\ req.authorization.token.payload.exp < now
    /\ req.authorization.token.signature
          = jwt_sign(JWT_ALGORITHM, req.authorization.token.payload, JWT_SECRET)
    /\ ObjectId(req.authorization.token.payload.sub) \in DOMAIN users
    /\ users[ObjectId(req.authorization.token.payload.sub)].is_active
    /\ ~FixtureStored
    /\ documents # <<>>

(* ---------------------------------------------------------------------- *)
(* C13: read_client answers 200 with the stored record exactly for the    *)
(* ids currently stored and 404 for every other id; create_client stores  *)
(* the supplied field values under an id never used before; a stored      *)
(* client stays as it is under every request that is not an update or a   *)
(* delete of that client; delete_client removes that client and no other  *)
(* record, and a removed id is never stored again.                        *)
(* ---------------------------------------------------------------------- *)
C13_ReadClientExactlyStored ==
    [][/\ (req'.op = "read_client" /\ ReadClient(req'.id))
          => IF req'.id \in DOMAIN clients
             THEN /\ resp'.status = 200
                  /\ resp'.id = req'.id
                  /\ resp'.data = clients[req'.id]
             ELSE resp'.status = 404
       /\ (req'.op = "create_client" /\ CreateClient(req'.body)
           /\ resp'.status = 200)
          => /\ resp'.id > issued.clients
             /\ resp'.id \notin DOMAIN clients
             /\ resp'.id \in DOMAIN clients'
             /\ \A f \in DOMAIN req'.body :
                   clients'[resp'.id][f] = req'.body[f]
       /\ (req'.op = "delete_client" /\ DeleteClient(req'.id)
           /\ resp'.status = 200)
          => /\ req'.id \in DOMAIN clients
             /\ DOMAIN clients' = DOMAIN clients \ {req'.id}
             /\ UNCHANGED <<users, organisations, projects, documents,
                            meetings>>
       /\ \A i \in DOMAIN clients :
             (req'.op \notin {"update_client", "delete_client"}
              \/ req'.id # i)
             => i \in DOMAIN clients' /\ clients'[i] = clients[i]
       /\ \A i \in 1 .. issued.clients :
             i \notin DOMAIN clients => i \notin DOMAIN clients'
       /\ \A i \in DOMAIN clients' : i <= issued'.clients]_vars

C13_WitnessDeletedThenRead ==
    /\ req.op = "read_client"
    /\ resp.status = 404
    /\ req.id <= issued.clients
    /\ req.id \notin DOMAIN clients
    /\ clients # <<>>

(* ---------------------------------------------------------------------- *)
(* C14: registering a user with an email a stored user already has is     *)
(* answered 400 and leaves the users collection unchanged.                *)
(* ---------------------------------------------------------------------- *)
C14_DuplicateRegistrationConflict ==
    [][(/\ req'.op = "register"
        /\ \E salt \in Salts : RegisterUser(req'.body, salt)
        /\ \E u \in DOMAIN users : users[u].email = req'.body.email)
       => (/\ resp'.status = 400
           /\ users' = users)]_vars

(* ---------------------------------------------------------------------- *)
(* C15: in every reachable state the client_id of every stored project,   *)
(* meeting and document is the id of a stored client.                     *)
(* ---------------------------------------------------------------------- *)
C15_ClientReferencesStored ==
    /\ \A p \in DOMAIN projects : projects[p].client_id \in DOMAIN clients
    /\ \A m \in DOMAIN meetings : meetings[m].client_id \in DOMAIN clients
    /\ \A d \in DOMAIN documents : documents[d].client_id \in DOMAIN clients

(* ---------------------------------------------------------------------- *)
(* C16: in every reachable state the organisation_id of every stored      *)
(* client and of every stored project, when present, is the id of a       *)
(* stored organisation.                                                   *)
(* ---------------------------------------------------------------------- *)
C16_OrganisationReferencesStored ==
    /\ \A c \in DOMAIN clients :
          clients[c].organisation_id # NoId
          => clients[c].organisation_id \in DOMAIN organisations
    /\ \A p \in DOMAIN projects :
          projects[p].organisation_id # NoId
          => projects[p].organisation_id \in DOMAIN organisations

(* ---------------------------------------------------------------------- *)
(* C17: in every reachable state the project_id of every stored document  *)
(* and meeting, when it is set, is the id of a stored project, also when  *)
(* a delete_project interleaves, one database call at a time, with a      *)
(* create or update of a document or meeting that names the project.      *)
(* ---------------------------------------------------------------------- *)
C17_ProjectReferencesStored ==
    /\ \A d \in DOMAIN documents :
          documents[d].project_id # NoId
             => Stored(projects, documents[d].project_id)
    /\ \A m \in DOMAIN meetings :
          meetings[m].project_id # NoId
             => Stored(projects, meetings[m].project_id)

(* ---------------------------------------------------------------------- *)
(* C18: for every stored document on which no update_document call is    *)
(* in flight, current_version is the length of versions and the           *)
(* version_number of the i-th entry is i, also after two update_document  *)
(* calls whose database reads and writes interleave.                      *)
(* ---------------------------------------------------------------------- *)
C18_VersionsNumbered ==
    \A d \in DOMAIN documents :
       (\A r \in Slots :
           ~(inflight[r].op = "update_document" /\ inflight[r].id = d))
       => /\ documents[d].current_version = Len(documents[d].versions)
          /\ \A i \in 1 .. Len(documents[d].versions) :
                documents[d].versions[i].version_number = i

(* ---------------------------------------------------------------------- *)
(* C19: every database call of update_document (with or without new      *)
(* content) and of sign_document, in any order and interleaving, leaves   *)
(* the versions list of each stored document as a prefix of what it is    *)
(* afterwards: entries are only appended, never removed, moved or changed.*)
(* ---------------------------------------------------------------------- *)
C19_IsPrefix(s, t) ==
    /\ Len(s) <= Len(t)
    /\ \A i \in 1 .. Len(s) : s[i] = t[i]

C19_VersionsAppendOnly ==
    [][\A d \in DOMAIN documents :
          /\ d \in DOMAIN documents'
          /\ C19_IsPrefix(documents[d].versions, documents'[d].versions)]_vars

\* a signed document that two interleaved updates each gave a version
C19_WitnessInterleavedPushes ==
    /\ inflight = NoCalls
    /\ Stored(documents, 1)
    /\ documents[1].signed
    /\ Len(documents[1].versions) = 3
    /\ documents[1].current_version = 2
    /\ req.op = "update_document"

(* ---------------------------------------------------------------------- *)
(* C20: no database call of update_document or sign_document turns the    *)
(* signed flag of a stored document from true to false; a document is     *)
(* inserted with signed = false, and the only call that turns the flag to *)
(* true is the $set of sign_document.                                     *)
(* ---------------------------------------------------------------------- *)
C20_SigningOneWay ==
    [][\A d \in DOMAIN documents' :
          IF d \in DOMAIN documents
          THEN /\ documents[d].signed => documents'[d].signed
               /\ (~documents[d].signed /\ documents'[d].signed)
                     => \E r \in Slots : SignDocument_Set(r)
          ELSE ~documents'[d].signed]_vars

\* a signed document has since got a new version from one update, and an
\* update whose JSON names signed has been answered
C20_WitnessUpdatedAfterSigning ==
    /\ inflight = NoCalls
    /\ Stored(documents, 1)
    /\ documents[1].signed
    /\ documents[1].signed_by = 2
    /\ Len(documents[1].versions) = 2
    /\ req.op = "update_document"
    /\ DOMAIN req.body = {}
    /\ resp.status = HTTP_200_OK

(* ---------------------------------------------------------------------- *)
(* C21: in every state reached by create_client and update_client         *)
(* requests, two create_client requests with one email whose find_one and *)
(* insert_one interleave included, no two stored clients have the same    *)
(* email.                                                                 *)
(* ---------------------------------------------------------------------- *)
C21_ClientEmailUnique ==
    \A a \in DOMAIN clients, b \in DOMAIN clients :
       a # b => clients[a].email # clients[b].email

(* ---------------------------------------------------------------------- *)
(* C22: the update_one of an add_key_points request leaves key_points as  *)
(* what was stored followed by the submitted points in their order,       *)
(* duplicates kept; and no database call of any add_key_points request,   *)
(* however two of them interleave, removes or moves a stored point, so    *)
(* the points of both are stored once both have written.                  *)
(* ---------------------------------------------------------------------- *)
C22_KeyPointsAppended ==
    [][/\ \A m \in DOMAIN meetings :
             /\ m \in DOMAIN meetings'
             /\ C19_IsPrefix(KeyPointsOf(meetings[m]),
                             KeyPointsOf(meetings'[m]))
       /\ \A r \in Slots :
             AddKeyPoints_Push(r)
                => KeyPointsOf(meetings'[inflight[r].id])
                      = KeyPointsOf(meetings[inflight[r].id])
                           \o inflight[r].key_points]_vars

\* two requests interleaved: the one that wrote first is answered last, and
\* its answer holds its points followed by the other's, a repeated point kept
C22_WitnessInterleaved ==
    /\ inflight = NoCalls
    /\ req.op = "add_key_points"
    /\ Len(req.body) = 2
    /\ resp.status = HTTP_200_OK
    /\ resp.data.key_points = req.body \o <<[content |-> "Survey in May"]>>
    /\ meetings[1].key_points = resp.data.key_points

(* ---------------------------------------------------------------------- *)
(* C24: of two sign_document requests on one unsigned document that       *)
(* requires a signature, reads and writes interleaved, at most one is     *)
(* answered with success: a sign_document answered 200 carries, and the   *)
(* document keeps, the signed_by and signed_at of that request, and no    *)
(* other sign_document on the document has by then passed its checks.     *)
(* ---------------------------------------------------------------------- *)
C24_OneSignerSucceeds ==
    (req.op = "sign_document" /\ resp.status = HTTP_200_OK)
       => /\ resp.data.signed_by = req.user
          /\ Stored(documents, req.id)
                => /\ documents[req.id].signed_by = req.user
                   /\ documents[req.id].signed_at = resp.data.signed_at
          /\ \A r \in Slots :
                ~(inflight[r].op = "sign_document" /\ inflight[r].id = req.id)

(* ---------------------------------------------------------------------- *)
(* C25: however a sign_document and a delete_document on one document     *)
(* interleave, a document whose sign_document was just answered with      *)
(* success is still stored after the next database call.                  *)
(* ---------------------------------------------------------------------- *)
C25_SignedStaysStored ==
    [][(/\ req.op = "sign_document"
        /\ resp.status = HTTP_200_OK
        /\ Stored(documents, req.id))
          => Stored(documents', req.id)]_vars

(* ---------------------------------------------------------------------- *)
(* C26: a signed document is frozen: every stored document with signed    *)
(* true has requires_signature true, and an update_document on a signed   *)
(* document leaves versions, current_version and requires_signature as    *)
(* they were.                                                             *)
(* ---------------------------------------------------------------------- *)
C26_SignedFrozen ==
    [][\A d \in DOMAIN documents :
          (documents[d].signed /\ d \in DOMAIN documents')
             => /\ documents'[d].versions = documents[d].versions
                /\ documents'[d].current_version = documents[d].current_version
                /\ documents'[d].requires_signature]_vars


(* ---------------------------------------------------------------------- *)
\* C23: whenever a request of any API module (clients, organisations,
\* projects, documents, meetings) is answered 401, the token is removed from
\* localStorage and the browser is sent to /login.
C23_UnauthorizedClearsToken ==
    [][\A m \in ApiModules :
          ApiCall(m, HTTP_401_UNAUTHORIZED) =>
              /\ localStorage'.token = None
              /\ location' = "/login"]_vars

(* ---------------------------------------------------------------------- *)
\* C27: once getClient has settled, ClientDetail leaves its loading state:
\* isLoading.client becomes false and stays false, whether or not the
\* client has an organisation_id and whether or not getOrganisation succeeds.
C27_ClientLoadingEnds ==
    [](page.name = "ClientDetail" /\ page.fetchClientData.pc # "getClient"
          => <>[](Rendered # "LoadingSpinner"))

(* ---------------------------------------------------------------------- *)
\* C28: on the clients and organisations list pages, after handleDelete has
\* settled, with success or with failure, deleteId is null again: with no
\* delete request pending no row is marked as being deleted.
C28_DeleteIdReset ==
    OnListPage /\ page.deletes = {} => page.deleteId = NoId

(* ---------------------------------------------------------------------- *)
\* C29: on the clients list page a client whose delete succeeded never
\* appears again among the displayed clients: once the list is loaded, no
\* step adds a client to the rows, also when two deletes overlap.
C29_DeletedStaysGone ==
    [][page.name = "ClientsPage" /\ page'.name = "ClientsPage"
       /\ ~page.fetching
          => Displayed' \subseteq Displayed]_vars

(* ---------------------------------------------------------------------- *)
\* C30: after login() has resolved true, its token stays in localStorage
\* and user stays set until logout(), another login(), or an auth check
\* made with that same token fails; an auth check made with an earlier
\* token removes neither.
C30_LoginKept ==
    [][(/\ OnAuthProvider
        /\ page.login.pc = "resolved" /\ page.login.result
        /\ localStorage.token = page.login.token
        /\ page.user # None)
          => (\/ /\ localStorage'.token = localStorage.token
                 /\ page'.user # None
              \/ Logout
              \/ Login
              \/ \E c \in Checks, s \in AuthStatuses, p \in AuthRoutes :
                    /\ c.token = page.login.token
                    /\ CheckAuth_Settled(c, s, p))]_vars

====
